---- MODULE Spec2Model ----
(***************************************************************************)
(* Model of the ADIv5 MEM-AP driver of src/target/arm_adi_v5.c: the CSW    *)
(* and TAR shadows, the queued single-word accessors, the block transfer   *)
(* engine and the capability probe, run against a model of the target's   *)
(* MEM-AP (CSW, TAR with auto-increment, DRW, BD0..BD3) and its memory;    *)
(* the power-up loop of dap_dp_init, run against a model of the target's   *)
(* CTRL/STAT register; the scan of dap_find_ap and the "dap" commands, run *)
(* against the IDR and BASE registers of the target's APs; and the ROM     *)
(* table walkers dap_lookup_cs_component and dap_rom_display, run step by  *)
(* step against ROM tables held in the target's memory.                    *)
(*                                                                         *)
(* A uint32_t register payload is a tuple of its four byte lanes,          *)
(* <<bits 7:0, bits 15:8, bits 23:16, bits 31:24>>; addresses and byte     *)
(* counts are integers (every address of the model is below 2^31).         *)
(***************************************************************************)
EXTENDS Integers, Sequences, FiniteSets, TLC

VARIABLES
    ap,         \* struct adiv5_ap: the shadows and the probed capabilities
    dap,        \* struct adiv5_dap: ti_be_32_quirks, select, last_read, dp_ctrl_stat
    journal,    \* operations queued and not yet flushed
    tgt,        \* the target's MEM-AP registers and memory
    value,      \* the caller's slot of mem_ap_read_u32
    req,        \* the block request (size, count, address) of this run
    call,       \* the last driver call and its arguments
    ret,        \* its return value
    ops,        \* the operations it queued, in order
    exec,       \* the operations the target executed during it
    buf,        \* the caller's buffer after a block read
    nrun,       \* the number of dap_run calls it made
    hist,       \* history: calls made, and whether any of them failed
    dp,         \* dap_dp_init: its loop, and the DP of the target
    tally,      \* history: the CSW and TAR writes the setup calls had to queue
    aps,        \* dap->ap[], dap->apsel and the IDR of the target's APs
    walk        \* the ROM table walkers: the stack of their activations

vars ==
    <<ap, dap, journal, tgt, value, req, call, ret, ops, exec, buf, nrun, hist, dp,
      tally, aps, walk>>

----------------------------------------------------------------------------
(* Bit operations of C on bytes and on four-lane words.                    *)

RECURSIVE BitAnd(_, _)
BitAnd(a, b) ==
    IF a = 0 \/ b = 0 THEN 0
    ELSE (a % 2) * (b % 2) + 2 * BitAnd(a \div 2, b \div 2)

RECURSIVE BitOr(_, _)
BitOr(a, b) ==
    IF a = 0 THEN b
    ELSE IF b = 0 THEN a
    ELSE (IF a % 2 = 1 \/ b % 2 = 1 THEN 1 ELSE 0) + 2 * BitOr(a \div 2, b \div 2)

RECURSIVE BitXor(_, _)
BitXor(a, b) ==
    IF a = 0 THEN b
    ELSE IF b = 0 THEN a
    ELSE ((a + b) % 2) + 2 * BitXor(a \div 2, b \div 2)

\* The word 0xb3b2b1b0.
W32(b3, b2, b1, b0) == <<b0, b1, b2, b3>>

ZeroWord == W32(0, 0, 0, 0)

WOr(x, y) == [i \in 1..4 |-> BitOr(x[i], y[i])]

WAnd(x, y) == [i \in 1..4 |-> BitAnd(x[i], y[i])]

\* (uint32_t)b << 8 * lane
Shl8(b, lane) == [i \in 1..4 |-> IF i = lane + 1 THEN b ELSE 0]

\* (uint8_t)(w >> 8 * lane)
Shr8(w, lane) == w[lane + 1]

\* An address as a register payload, and back.
ToWord(n) == <<n % 256, (n \div 256) % 256, (n \div 65536) % 256, (n \div 16777216) % 256>>

ToAddr(w) == w[1] + 256 * w[2] + 65536 * w[3] + 16777216 * w[4]

----------------------------------------------------------------------------
(* Register numbers, CSW fields and error codes of arm_adi_v5.h.           *)

MEM_AP_REG_CSW == \h00
MEM_AP_REG_TAR == \h04
MEM_AP_REG_DRW == \h0C
MEM_AP_REG_BD0 == \h10
MEM_AP_REG_CFG == \hF4

CSW_8BIT == W32(0, 0, 0, \h00)
CSW_16BIT == W32(0, 0, 0, \h01)
CSW_32BIT == W32(0, 0, 0, \h02)
CSW_ADDRINC_MASK == W32(0, 0, 0, \h30)
CSW_ADDRINC_OFF == W32(0, 0, 0, \h00)
CSW_ADDRINC_SINGLE == W32(0, 0, 0, \h10)
CSW_ADDRINC_PACKED == W32(0, 0, 0, \h20)
CSW_HPROT == W32(\h02, 0, 0, 0)
CSW_MASTER_DEBUG == W32(\h20, 0, 0, 0)
CSW_SPROT == W32(\h40, 0, 0, 0)
CSW_DBGSWENABLE == W32(\h80, 0, 0, 0)

ERROR_OK == "ERROR_OK"
ERROR_FAIL == "ERROR_FAIL"
ERROR_TARGET_UNALIGNED_ACCESS == "ERROR_TARGET_UNALIGNED_ACCESS"
ERROR_JTAG_DEVICE_ERROR == "ERROR_JTAG_DEVICE_ERROR"
ERROR_COMMAND_SYNTAX_ERROR == "ERROR_COMMAND_SYNTAX_ERROR"
ERROR_TIMEOUT_REACHED == "ERROR_TIMEOUT_REACHED"
ERROR_WAIT == "ERROR_WAIT"

DP_CTRL_STAT == \h04
DP_SELECT_INVALID == W32(\hFF, \hFF, \hFF, \hFF)
NULL == "NULL"

CORUNDETECT == W32(0, 0, 0, \h01)
SSTICKYORUN == W32(0, 0, 0, \h02)
SSTICKYERR == W32(0, 0, 0, \h20)
CDBGPWRUPREQ == W32(\h10, 0, 0, 0)
CDBGPWRUPACK == W32(\h20, 0, 0, 0)
CSYSPWRUPREQ == W32(\h40, 0, 0, 0)
CSYSPWRUPACK == W32(\h80, 0, 0, 0)

DAP_POWER_DOMAIN_TIMEOUT == 10

\* dap_dp_init: for (size_t i = 0; i < 10; i++)
DP_INIT_ATTEMPTS == 10

\* dap_init: number of bytes within which TAR auto-increment is relied on.
TAR_AUTOINCR_BLOCK == 1024

----------------------------------------------------------------------------
(* The target: a MEM-AP and the memory behind it.                          *)

\* The byte a memory cell holds before anything is written to it.
InitByte(a) == 255 - (a % 16)

MemByte(mem, a) == IF a \in DOMAIN mem THEN mem[a] ELSE InitByte(a)

\* mem with cells base..base+n-1 set to cell(0)..cell(n-1)
MemStore(mem, base, n, cell(_)) ==
    [a \in DOMAIN mem \cup {base + i : i \in 0..n-1} |->
        IF a >= base /\ a < base + n THEN cell(a - base) ELSE mem[a]]

\* The access size in bytes the CSW Size field selects.
TgtSize(csw) ==
    LET f == csw[1] % 8 IN IF f = 0 THEN 1 ELSE IF f = 1 THEN 2 ELSE 4

\* The CSW AddrInc field: 0 off, 1 single, 2 packed.
TgtInc(csw) == (csw[1] \div 16) % 4

\* A target without packed transfers does not retain AddrInc = 0b10.
TgtCswStore(t, v) ==
    IF ~t.packed /\ TgtInc(v) = 2
    THEN [v EXCEPT ![1] = v[1] - 32]
    ELSE v

\* Bytes one DRW access moves: a packed access fills the whole word.
TgtSpan(t) == IF TgtInc(t.csw) = 2 THEN 4 ELSE TgtSize(t.csw)

\* TAR after an access that moved n bytes: only the low bits increment.
TgtTarNext(t, n) ==
    IF TgtInc(t.csw) = 0 THEN t.tar
    ELSE (t.tar - (t.tar % TAR_AUTOINCR_BLOCK)) + ((t.tar + n) % TAR_AUTOINCR_BLOCK)

\* The address a DRW write lands on.  A TI BE-32 target writes a 16-bit
\* access at TAR ^ 2 and an 8-bit access at TAR ^ 3.
TgtWriteBase(t) ==
    IF ~t.be32 THEN t.tar
    ELSE IF TgtSpan(t) = 2 THEN BitXor(t.tar, 2)
    ELSE IF TgtSpan(t) = 1 THEN BitXor(t.tar, 3)
    ELSE t.tar

\* The memory after a DRW write of v.  A little-endian target takes the
\* byte for address a from lane a & 3; a TI BE-32 target stores the lanes
\* of the access from the highest down.
TgtDrwWrite(t, v) ==
    LET n == TgtSpan(t)
        base == TgtWriteBase(t)
        le(i) == Shr8(v, (t.tar + i) % 4)
        be(i) == Shr8(v, ((t.tar % 4) + n - 1 - i) % 4)
    IN  MemStore(t.mem, base, n, LAMBDA i : IF t.be32 THEN be(i) ELSE le(i))

\* The word a DRW read returns: the byte of address a in lane a & 3, or,
\* on a TI BE-32 target, in lane 3 - (a & 3); the other lanes read as 0.
TgtDrwRead(t) ==
    LET n == TgtSpan(t)
        lane(a) == IF t.be32 THEN 3 - (a % 4) ELSE a % 4
        hit(k) == {a \in {t.tar + i : i \in 0..n-1} : lane(a) = k}
    IN  [k \in 1..4 |->
            IF hit(k - 1) = {} THEN 0
            ELSE MemByte(t.mem, CHOOSE a \in hit(k - 1) : TRUE)]

\* The word address a banked data register BDx maps to.
TgtBdAddr(t, reg) == (t.tar - (t.tar % 16)) + BitAnd(reg, \h0C)

TgtBdWrite(t, reg, v) ==
    MemStore(t.mem, TgtBdAddr(t, reg), 4,
             LAMBDA i : IF t.be32 THEN Shr8(v, 3 - i) ELSE Shr8(v, i))

TgtBdRead(t, reg) ==
    [k \in 1..4 |->
        MemByte(t.mem, TgtBdAddr(t, reg) + (IF t.be32 THEN 4 - k ELSE k - 1))]

IsBd(reg) == reg >= MEM_AP_REG_BD0 /\ reg <= MEM_AP_REG_BD0 + 12

\* The target after one AP operation.
TgtStep(t, op) ==
    IF op.kind = "AP_WRITE" THEN
        IF op.reg = MEM_AP_REG_CSW THEN [t EXCEPT !.csw = TgtCswStore(t, op.val)]
        ELSE IF op.reg = MEM_AP_REG_TAR THEN [t EXCEPT !.tar = ToAddr(op.val)]
        ELSE IF op.reg = MEM_AP_REG_DRW THEN
            [t EXCEPT !.mem = TgtDrwWrite(t, op.val), !.tar = TgtTarNext(t, TgtSpan(t))]
        ELSE IF IsBd(op.reg) THEN [t EXCEPT !.mem = TgtBdWrite(t, op.reg, op.val)]
        ELSE t
    ELSE
        IF op.reg = MEM_AP_REG_DRW THEN [t EXCEPT !.tar = TgtTarNext(t, TgtSpan(t))]
        ELSE t

\* The word an AP read returns.
TgtRead(t, op) ==
    IF op.reg = MEM_AP_REG_CSW THEN t.csw
    ELSE IF op.reg = MEM_AP_REG_TAR THEN ToWord(t.tar)
    ELSE IF op.reg = MEM_AP_REG_DRW THEN TgtDrwRead(t)
    ELSE IF IsBd(op.reg) THEN TgtBdRead(t, op.reg)
    ELSE ZeroWord

----------------------------------------------------------------------------
(* The transport: the journal and its flush.                               *)
(*                                                                         *)
(* A driver call is computed on a record m that carries what the call      *)
(* reads and writes: m.ap, m.journal, m.tgt, the read destinations         *)
(* (m.value, m.rd, m.tar, m.csw), what the call did (m.ops, m.exec,        *)
(* m.nq, m.nrun), its return value m.ret, and the transport's behaviour    *)
(* during the call, m.fault: the queue operation that is refused (q, 0 for *)
(* none), the flushes that fail (run), and how many journal entries a      *)
(* failing flush completes before the rest is discarded (done), and        *)
(* whether malloc returns NULL (oom).                                      *)

NoFault == [q |-> 0, run |-> {}, done |-> 0, oom |-> FALSE]

Op(kind, reg, val, slot, idx, haddr) ==
    [kind |-> kind, reg |-> reg, val |-> val, slot |-> slot, idx |-> idx, haddr |-> haddr]

\* One queue operation of the transport: refused, or appended.
QueueOp(m, op) ==
    IF m.nq + 1 = m.fault.q
    THEN [m EXCEPT !.nq = @ + 1, !.ret = ERROR_FAIL]
    ELSE [m EXCEPT !.nq = @ + 1, !.ret = ERROR_OK,
                   !.journal = Append(@, op), !.ops = Append(@, op)]

dap_queue_ap_write(m, reg, val, haddr) ==
    QueueOp(m, Op("AP_WRITE", reg, val, "none", 0, haddr))

dap_queue_ap_read(m, reg, slot, idx, haddr) ==
    QueueOp(m, Op("AP_READ", reg, ZeroWord, slot, idx, haddr))

\* The target executes one journal entry; a read fills its destination.
RunOp(m, op) ==
    LET r == TgtRead(m.tgt, op)
        m1 == [m EXCEPT !.tgt = TgtStep(m.tgt, op),
                        !.exec = Append(@, [op |-> op, tar |-> m.tgt.tar, csw |-> m.tgt.csw])]
    IN  IF op.kind # "AP_READ" THEN m1
        ELSE IF op.slot = "value" THEN [m1 EXCEPT !.value = r]
        ELSE IF op.slot = "read_buf" THEN
            [m1 EXCEPT !.rd = [i \in DOMAIN m.rd \cup {op.idx} |->
                                   IF i = op.idx THEN r ELSE m.rd[i]]]
        ELSE IF op.slot = "tar" THEN [m1 EXCEPT !.tar = r]
        ELSE IF op.slot = "csw" THEN [m1 EXCEPT !.csw = r]
        ELSE m1

RECURSIVE RunOps(_, _, _)
RunOps(m, todo, n) ==
    IF n = 0 \/ todo = <<>> THEN m
    ELSE RunOps(RunOp(m, Head(todo)), Tail(todo), n - 1)

\* The fault code of the k-th flush of a call when it fails: the first and
\* a later failure of one call return different codes.
FlushError(k) == IF k = 1 THEN ERROR_JTAG_DEVICE_ERROR ELSE ERROR_TIMEOUT_REACHED

\* dap_run: the journal is executed in order and emptied.  A failing flush
\* completes some entries and discards the rest.
dap_run(m) ==
    LET k == m.nrun + 1
        fails == k \in m.fault.run
        n == IF fails THEN m.fault.done ELSE Len(m.journal)
        m1 == RunOps(m, m.journal, n)
    IN  [m1 EXCEPT !.journal = <<>>, !.nrun = k,
                   !.ret = IF fails THEN FlushError(k) ELSE ERROR_OK]

----------------------------------------------------------------------------
(* DP and MEM-AP register access.                                          *)

max_tar_block_size(tar_autoincr_block, address) ==
    tar_autoincr_block - BitAnd(tar_autoincr_block - 1, address)

\* Go on with F when the step before returned ERROR_OK, else return its error.
Then(m, F(_)) == IF m.ret # ERROR_OK THEN m ELSE F(m)

SetCsw(m, csw) == [m EXCEPT !.ap.csw_value = csw]

SetTar(m, tar) == [m EXCEPT !.ap.tar_value = tar]

Return(m, retval) == [m EXCEPT !.ret = retval]

\* The CSW value without the bits of ap->csw_default.
CswEffective_no_default(a, csw) ==
    WOr(WOr(WOr(csw, CSW_DBGSWENABLE), CSW_MASTER_DEBUG), CSW_HPROT)

\* csw | CSW_DBGSWENABLE | CSW_MASTER_DEBUG | CSW_HPROT | ap->csw_default
CswEffective(a, csw) ==
    WOr(WOr(WOr(WOr(csw, CSW_DBGSWENABLE), CSW_MASTER_DEBUG), CSW_HPROT), a.csw_default)

\* mem_ap_setup_csw writing the caller's csw, without the fixed bits.
mem_ap_setup_csw_raw(m, csw) ==
    IF csw # m.ap.csw_value
    THEN Then(dap_queue_ap_write(m, MEM_AP_REG_CSW, csw, -1), LAMBDA m1 : SetCsw(m1, csw))
    ELSE Return(m, ERROR_OK)

mem_ap_setup_csw(m, csw) ==
    IF CswEffective(m.ap, csw) # m.ap.csw_value
    THEN Then(dap_queue_ap_write(m, MEM_AP_REG_CSW, CswEffective(m.ap, csw), -1),
              LAMBDA m1 : SetCsw(m1, CswEffective(m.ap, csw)))
    ELSE Return(m, ERROR_OK)

\* mem_ap_setup_tar that writes TAR only for an address the shadow does not
\* hold.
mem_ap_setup_tar_on_change(m, tar) ==
    IF tar # m.ap.tar_value
    THEN Then(dap_queue_ap_write(m, MEM_AP_REG_TAR, ToWord(tar), -1),
              LAMBDA m1 : SetTar(m1, tar))
    ELSE Return(m, ERROR_OK)

\* mem_ap_setup_tar without the shadow: TAR is written on every call.
mem_ap_setup_tar_uncached(m, tar) ==
    Then(dap_queue_ap_write(m, MEM_AP_REG_TAR, ToWord(tar), -1),
         LAMBDA m1 : SetTar(m1, tar))

mem_ap_setup_tar(m, tar) ==
    IF tar # m.ap.tar_value \/ WAnd(m.ap.csw_value, CSW_ADDRINC_MASK) # ZeroWord
    THEN Then(dap_queue_ap_write(m, MEM_AP_REG_TAR, ToWord(tar), -1),
              LAMBDA m1 : SetTar(m1, tar))
    ELSE Return(m, ERROR_OK)

\* mem_ap_setup_transfer that goes on to the TAR step after a failed CSW step.
mem_ap_setup_transfer_tar_anyway(m, csw, tar) ==
    mem_ap_setup_tar([mem_ap_setup_csw(m, csw) EXCEPT !.ret = ERROR_OK], tar)

mem_ap_setup_transfer(m, csw, tar) ==
    Then(mem_ap_setup_csw(m, csw), LAMBDA m1 : mem_ap_setup_tar(m1, tar))

\* address & 0xFFFFFFF0 and MEM_AP_REG_BD0 | (address & 0xC)
BdWindow(address) == address - (address % 16)

BdReg(address) == BitOr(MEM_AP_REG_BD0, BitAnd(address, \h0C))

mem_ap_read_u32(m, address) ==
    Then(mem_ap_setup_transfer(m, WOr(CSW_32BIT, CSW_ADDRINC_OFF), BdWindow(address)),
         LAMBDA m1 : dap_queue_ap_read(m1, BdReg(address), "value", 0, address))

\* mem_ap_read_atomic_u32 flushing whatever the queueing returned.
mem_ap_read_atomic_u32_flush_always(m, address) ==
    dap_run(mem_ap_read_u32(m, address))

mem_ap_read_atomic_u32(m, address) ==
    Then(mem_ap_read_u32(m, address), LAMBDA m1 : dap_run(m1))

mem_ap_write_u32(m, address, val) ==
    Then(mem_ap_setup_transfer(m, WOr(CSW_32BIT, CSW_ADDRINC_OFF), BdWindow(address)),
         LAMBDA m1 : dap_queue_ap_write(m1, BdReg(address), val, address))

mem_ap_write_atomic_u32(m, address, val) ==
    Then(mem_ap_write_u32(m, address, val), LAMBDA m1 : dap_run(m1))

----------------------------------------------------------------------------
(* The block transfer engine.                                              *)

\* UsePacked without the test of the room left in the auto-increment block.
UsePacked_no_headroom(a, addrinc, nbytes, address) ==
    /\ addrinc
    /\ a.packed_transfers
    /\ nbytes >= 4

\* "Select packed transfer if possible"
UsePacked(a, addrinc, nbytes, address) ==
    /\ addrinc
    /\ a.packed_transfers
    /\ nbytes >= 4
    /\ max_tar_block_size(a.tar_autoincr_block, address) >= 4

ThisSize(a, c, nbytes, address) ==
    IF UsePacked(a, c.addrinc, nbytes, address) THEN 4 ELSE c.size

\* SlotCsw that never selects packed transfers.
SlotCsw_single(a, c, nbytes, address) == WOr(c.csw_size, c.csw_addrincr)

\* The CSW of one transfer slot.
SlotCsw(a, c, nbytes, address) ==
    WOr(c.csw_size, IF UsePacked(a, c.addrinc, nbytes, address)
                    THEN CSW_ADDRINC_PACKED ELSE c.csw_addrincr)

\* The lane of the source byte for address a in a DRW write of this_size
\* bytes: a & 3, or in TI BE-32 quirks mode (this_size - 1) ^ (a & 3) ^ addr_xor.
WriteLane(quirks, this_size, addr_xor, a) ==
    IF quirks THEN BitXor(BitXor(this_size - 1, a % 4), addr_xor)
    ELSE a % 4

\* outvalue: the next this_size bytes of the buffer, each shifted to its lane.
RECURSIVE OutValue(_, _, _, _, _)
OutValue(c, this_size, bi, address, j) ==
    IF j = this_size THEN ZeroWord
    ELSE WOr(Shl8(c.buffer[bi + j + 1],
                  WriteLane(c.quirks, this_size, c.addr_xor, address + j)),
             OutValue(c, this_size, bi, address, j + 1))

\* WriteRewrite that rewrites TAR only while bytes remain.
WriteRewrite_while_left(a, c, nbytes, address) ==
    c.addrinc /\ nbytes > 0 /\ (c.addr_xor # 0 \/ (address % a.tar_autoincr_block) < c.size)

\* "Rewrite TAR if it wrapped or we're xoring addresses", after a slot that
\* left address and nbytes as given.
WriteRewrite(a, c, nbytes, address) ==
    c.addrinc /\ (c.addr_xor # 0 \/
                    ((address % a.tar_autoincr_block) < c.size /\ nbytes > 0))

\* The while loop of mem_ap_write; c holds what the loop does not change,
\* bi is how far buffer has advanced.
RECURSIVE WriteLoop(_, _, _, _, _)
WriteSlot(m, c, nbytes, address, bi, this_size) ==
    Then(mem_ap_setup_csw(m, SlotCsw(m.ap, c, nbytes, address)), LAMBDA m1 :
    Then(dap_queue_ap_write(m1, MEM_AP_REG_DRW,
                            OutValue(c, this_size, bi, address, 0), address), LAMBDA m2 :
    Then(IF WriteRewrite(m.ap, c, nbytes - this_size, address + this_size)
         THEN mem_ap_setup_tar(m2, BitXor(address + this_size, c.addr_xor))
         ELSE m2, LAMBDA m3 :
    WriteLoop(m3, c, nbytes - this_size, address + this_size, bi + this_size))))

WriteLoop(m, c, nbytes, address, bi) ==
    IF nbytes <= 0 THEN m
    ELSE WriteSlot(m, c, nbytes, address, bi, ThisSize(m.ap, c, nbytes, address))

\* KeepError returning what the recovery returned.
KeepError_of_recovery(m, retval) == [m EXCEPT !.tar_ok = (m.ret = ERROR_OK)]

\* After a failure: read TAR to find out where.  The error is kept.
KeepError(m, retval) == [m EXCEPT !.ret = retval, !.tar_ok = (m.ret = ERROR_OK)]

Recover(m) ==
    KeepError(Then(dap_queue_ap_read(m, MEM_AP_REG_TAR, "tar", 0, -1),
                   LAMBDA m1 : dap_run(m1)),
              m.ret)

\* if (retval == ERROR_OK) retval = dap_run(dap); if (retval != ERROR_OK) ...
RecoverIfFailed(m) == IF m.ret # ERROR_OK THEN Recover(m) ELSE m

RunAndRecover(m) == RecoverIfFailed(Then(m, LAMBDA m1 : dap_run(m1)))

CswSize(size) == IF size = 4 THEN CSW_32BIT ELSE IF size = 2 THEN CSW_16BIT ELSE CSW_8BIT

AddrXor(quirks, size) ==
    IF size = 4 THEN 0
    ELSE IF size = 2 THEN (IF quirks THEN 2 ELSE 0)
    ELSE (IF quirks THEN 3 ELSE 0)

\* What the loops of a block transfer do not change.
Transfer(m, buffer, size, addrinc) ==
    [size |-> size, addrinc |-> addrinc, addr_xor |-> AddrXor(m.quirks, size),
     csw_size |-> CswSize(size), quirks |-> m.quirks, buffer |-> buffer,
     csw_addrincr |-> IF addrinc THEN CSW_ADDRINC_SINGLE ELSE CSW_ADDRINC_OFF]

WriteBody(m, c, count, address) ==
    Then(mem_ap_setup_tar(m, BitXor(address, c.addr_xor)), LAMBDA m1 :
         RunAndRecover(WriteLoop(m1, c, c.size * count, address, 0)))

\* mem_ap_write without the alignment check.
mem_ap_write_unchecked(m, buffer, size, count, address, addrinc) ==
    IF size \notin {1, 2, 4} THEN Return(m, ERROR_TARGET_UNALIGNED_ACCESS)
    ELSE WriteBody(m, Transfer(m, buffer, size, addrinc), count, address)

mem_ap_write(m, buffer, size, count, address, addrinc) ==
    IF size \notin {1, 2, 4} THEN Return(m, ERROR_TARGET_UNALIGNED_ACCESS)
    ELSE IF m.ap.unaligned_access_bad /\ address % size # 0
        THEN Return(m, ERROR_TARGET_UNALIGNED_ACCESS)
    ELSE WriteBody(m, Transfer(m, buffer, size, addrinc), count, address)

\* ReadRewrite without the test for bytes that remain.
ReadRewrite_at_end(a, c, nbytes, address) ==
    c.addrinc /\ (address % a.tar_autoincr_block) < c.size

\* "Rewrite TAR if it wrapped"
ReadRewrite(a, c, nbytes, address) ==
    c.addrinc /\ (address % a.tar_autoincr_block) < c.size /\ nbytes > 0

\* The queueing loop of mem_ap_read; read_buf[idx] takes each DRW word.
RECURSIVE ReadLoop(_, _, _, _, _)
ReadSlot(m, c, nbytes, address, idx, this_size) ==
    Then(mem_ap_setup_csw(m, SlotCsw(m.ap, c, nbytes, address)), LAMBDA m1 :
    Then(dap_queue_ap_read(m1, MEM_AP_REG_DRW, "read_buf", idx, address), LAMBDA m2 :
    Then(IF ReadRewrite(m.ap, c, nbytes - this_size, address + this_size)
         THEN mem_ap_setup_tar(m2, address + this_size)
         ELSE m2, LAMBDA m3 :
    ReadLoop(m3, c, nbytes - this_size, address + this_size, idx + 1))))

\* ReadLoop that queues one more read when no byte remains.
ReadLoop_one_more(m, c, nbytes, address, idx) ==
    IF nbytes < 0 THEN m
    ELSE ReadSlot(m, c, nbytes, address, idx, ThisSize(m.ap, c, nbytes, address))

ReadLoop(m, c, nbytes, address, idx) ==
    IF nbytes <= 0 THEN m
    ELSE ReadSlot(m, c, nbytes, address, idx, ThisSize(m.ap, c, nbytes, address))

\* if (nbytes > tar - address) nbytes = tar - address, in uint32_t: a TAR
\* below the start address wraps to a difference no byte count exceeds.
Truncate(nbytes, tar, address) ==
    IF tar >= address /\ nbytes > tar - address THEN tar - address ELSE nbytes

\* The bytes the replay loop has to deliver.
ReplayBytes(m, size, count, adr) ==
    IF m.ret = ERROR_OK THEN size * count
    ELSE IF m.tar_ok THEN Truncate(size * count, ToAddr(m.tar), adr)
    ELSE 0

\* A word of read_buf: what the flush stored, or what malloc left there.
ReadWord(m, idx) == IF idx \in DOMAIN m.rd THEN m.rd[idx] ELSE m.junk

\* The lane the replay takes the byte for address a from.
ReadLane(quirks, a) == IF quirks THEN 3 - (a % 4) ELSE a % 4

\* The this_size bytes one replay step stores in the caller's buffer.
ReplayWord(quirks, w, this_size, address) ==
    [j \in 1..this_size |-> Shr8(w, ReadLane(quirks, address + j - 1))]

\* The replay loop of mem_ap_read: the caller's buffer so far is out.  The
\* loop ends when nbytes is 0; a this_size above nbytes wraps the size_t
\* counter, after which the loop runs on past read_buf and buffer.
RECURSIVE Replay(_, _, _, _, _, _)
ReplaySlot(m, c, nbytes, address, idx, out, this_size) ==
    IF this_size > nbytes
    THEN [data |-> out \o ReplayWord(c.quirks, ReadWord(m, idx), this_size, address),
          words |-> idx, wrapped |-> TRUE]
    ELSE Replay(m, c, nbytes - this_size, address + this_size, idx + 1,
                out \o ReplayWord(c.quirks, ReadWord(m, idx), this_size, address))

Replay(m, c, nbytes, address, idx, out) ==
    IF nbytes = 0 THEN [data |-> out, words |-> idx - 1, wrapped |-> FALSE]
    ELSE ReplaySlot(m, c, nbytes, address, idx, out, ThisSize(m.ap, c, nbytes, address))

SetBuf(m, c, size, count, adr) ==
    [m EXCEPT !.buf = Replay(m, c, ReplayBytes(m, size, count, adr), adr, 1, <<>>)]

ReadBody(m, c, count, adr) ==
    Then(mem_ap_setup_tar(m, adr), LAMBDA m1 :
         SetBuf(RunAndRecover(ReadLoop(m1, c, c.size * count, adr, 1)),
                c, c.size, count, adr))

mem_ap_read(m, size, count, adr, addrinc) ==
    IF size \notin {1, 2, 4} THEN Return(m, ERROR_TARGET_UNALIGNED_ACCESS)
    ELSE IF m.ap.unaligned_access_bad /\ adr % size # 0
        THEN Return(m, ERROR_TARGET_UNALIGNED_ACCESS)
    ELSE IF m.fault.oom THEN Return(m, ERROR_FAIL)
    ELSE ReadBody(m, Transfer(m, <<>>, size, addrinc), count, adr)

----------------------------------------------------------------------------
(* The capability probe.                                                   *)

\* What mem_ap_init stores, with the probe's answer taken whatever the quirk.
Probed_as_read(m) ==
    [m EXCEPT !.ap.packed_transfers = WAnd(m.csw, CSW_ADDRINC_PACKED) # ZeroWord,
              !.ap.unaligned_access_bad = m.quirks]

\* What mem_ap_init stores once its flush has returned ERROR_OK.
Probed(m) ==
    [m EXCEPT !.ap.packed_transfers =
                  IF m.quirks THEN FALSE ELSE WAnd(m.csw, CSW_ADDRINC_PACKED) # ZeroWord,
              !.ap.unaligned_access_bad = m.quirks]

mem_ap_init(m) ==
    Then(mem_ap_setup_transfer(m, WOr(CSW_8BIT, CSW_ADDRINC_PACKED), 0), LAMBDA m1 :
    Then(dap_queue_ap_read(m1, MEM_AP_REG_CSW, "csw", 0, -1), LAMBDA m2 :
    Then(dap_queue_ap_read(m2, MEM_AP_REG_CFG, "cfg", 0, -1), LAMBDA m3 :
    Then(dap_run(m3), LAMBDA m4 : Probed(m4)))))

----------------------------------------------------------------------------
(* DP initialisation.                                                      *)
(*                                                                         *)
(* One pass of the loop of dap_dp_init is computed on a record d: d.dap,   *)
(* d.journal, the target's DP d.tgt, the operations of the pass d.ops, the *)
(* count of its steps d.n, its result d.ret, and what the link does in the *)
(* pass, d.fault: the step that fails (0 for none) and how: a queue        *)
(* operation is refused, a flush fails, or the target does not raise the   *)
(* acknowledge a poll waits for.                                           *)

\* The target's CTRL/STAT: the request and overrun-detect bits last written,
\* the acknowledge of each request, and the latched sticky error.
DpWritable == WOr(WOr(CDBGPWRUPREQ, CSYSPWRUPREQ), CORUNDETECT)

DpAcks(ctrl) == W32(2 * BitAnd(ctrl[4], \h50), 0, 0, 0)

DpRead(t, acks) ==
    WOr(WOr(t.ctrl, IF acks THEN DpAcks(t.ctrl) ELSE ZeroWord),
        IF t.sticky THEN SSTICKYERR ELSE ZeroWord)

\* The DP after one journal entry: a CTRL/STAT write stores the writable
\* bits and clears the sticky error when it carries SSTICKYERR.
DpExec(t, op) ==
    IF op[1] = "DP_WRITE" /\ op[2] = DP_CTRL_STAT
    THEN [ctrl |-> WAnd(op[3], DpWritable),
          sticky |-> t.sticky /\ WAnd(op[3], SSTICKYERR) = ZeroWord,
          lastw |-> op[3]]
    ELSE t

RECURSIVE DpExecAll(_, _)
DpExecAll(t, todo) ==
    IF todo = <<>> THEN t ELSE DpExecAll(DpExec(t, Head(todo)), Tail(todo))

NoDpFault == [step |-> 0, kind |-> "none"]

DpQueue(d, op) ==
    IF d.n + 1 = d.fault.step
    THEN [d EXCEPT !.n = @ + 1, !.ret = ERROR_FAIL]
    ELSE [d EXCEPT !.n = @ + 1, !.ret = ERROR_OK,
                   !.journal = Append(@, op), !.ops = Append(@, op)]

dap_queue_dp_read(d, reg) == DpQueue(d, <<"DP_READ", reg, ZeroWord>>)

dap_queue_dp_write(d, reg, val) == DpQueue(d, <<"DP_WRITE", reg, val>>)

\* dap_run on the DP journal.
DpRun(d) ==
    IF d.n + 1 = d.fault.step
    THEN [d EXCEPT !.n = @ + 1, !.ret = FlushError(1), !.journal = <<>>,
                   !.ops = Append(@, <<"RUN", 0, ZeroWord>>)]
    ELSE [d EXCEPT !.n = @ + 1, !.ret = ERROR_OK, !.journal = <<>>,
                   !.tgt = DpExecAll(d.tgt, d.journal),
                   !.ops = Append(@, <<"RUN", 0, ZeroWord>>)]

\* A poll that flushed and read regval: ERROR_OK when the masked value is
\* the one waited for, ERROR_WAIT when the timeout reads did not show it.
Polled(d, regval, mask, val) ==
    [d EXCEPT !.ret = IF WAnd(regval, mask) = val THEN ERROR_OK ELSE ERROR_WAIT]

\* dap_dp_poll_register: atomic reads of reg, each flushing the journal,
\* until (regval & mask) == value or timeout reads were made.
dap_dp_poll_register(d, reg, mask, val, timeout) ==
    IF d.n + 1 = d.fault.step /\ d.fault.kind = "error"
    THEN [d EXCEPT !.n = @ + 1, !.ret = FlushError(1), !.journal = <<>>,
                   !.ops = Append(@, <<"POLL", reg, mask>>)]
    ELSE Polled([d EXCEPT !.n = @ + 1, !.journal = <<>>,
                          !.tgt = DpExecAll(d.tgt, d.journal),
                          !.ops = Append(@, <<"POLL", reg, mask>>)],
                DpRead(DpExecAll(d.tgt, d.journal), d.n + 1 # d.fault.step),
                mask, val)

SetCtrlStat(d, v) == [d EXCEPT !.dap.dp_ctrl_stat = v]

\* The final CTRL/STAT value without overrun detection.
PowerUpOverrun_off == WOr(CDBGPWRUPREQ, CSYSPWRUPREQ)

PowerUpOverrun == WOr(WOr(CDBGPWRUPREQ, CSYSPWRUPREQ), CORUNDETECT)

\* The body of the loop with the two polls in the other order.
DpInitPass_csys_first(d) ==
    Then(dap_queue_dp_read(d, DP_CTRL_STAT), LAMBDA d1 :
    Then(dap_queue_dp_write(d1, DP_CTRL_STAT, SSTICKYERR), LAMBDA d2 :
    Then(dap_queue_dp_read(d2, DP_CTRL_STAT), LAMBDA d3 :
    Then(dap_queue_dp_write(SetCtrlStat(d3, WOr(CDBGPWRUPREQ, CSYSPWRUPREQ)),
                            DP_CTRL_STAT, WOr(CDBGPWRUPREQ, CSYSPWRUPREQ)), LAMBDA d4 :
    Then(dap_dp_poll_register(d4, DP_CTRL_STAT, CSYSPWRUPACK, CSYSPWRUPACK,
                              DAP_POWER_DOMAIN_TIMEOUT), LAMBDA d5 :
    Then(dap_dp_poll_register(d5, DP_CTRL_STAT, CDBGPWRUPACK, CDBGPWRUPACK,
                              DAP_POWER_DOMAIN_TIMEOUT), LAMBDA d6 :
    Then(dap_queue_dp_read(d6, DP_CTRL_STAT), LAMBDA d7 :
    Then(dap_queue_dp_write(SetCtrlStat(d7, PowerUpOverrun),
                            DP_CTRL_STAT, PowerUpOverrun), LAMBDA d8 :
    Then(dap_queue_dp_read(d8, DP_CTRL_STAT), LAMBDA d9 :
    DpRun(d9))))))))))

\* The body of the loop of dap_dp_init.
DpInitPass(d) ==
    Then(dap_queue_dp_read(d, DP_CTRL_STAT), LAMBDA d1 :
    Then(dap_queue_dp_write(d1, DP_CTRL_STAT, SSTICKYERR), LAMBDA d2 :
    Then(dap_queue_dp_read(d2, DP_CTRL_STAT), LAMBDA d3 :
    Then(dap_queue_dp_write(SetCtrlStat(d3, WOr(CDBGPWRUPREQ, CSYSPWRUPREQ)),
                            DP_CTRL_STAT, WOr(CDBGPWRUPREQ, CSYSPWRUPREQ)), LAMBDA d4 :
    Then(dap_dp_poll_register(d4, DP_CTRL_STAT, CDBGPWRUPACK, CDBGPWRUPACK,
                              DAP_POWER_DOMAIN_TIMEOUT), LAMBDA d5 :
    Then(dap_dp_poll_register(d5, DP_CTRL_STAT, CSYSPWRUPACK, CSYSPWRUPACK,
                              DAP_POWER_DOMAIN_TIMEOUT), LAMBDA d6 :
    Then(dap_queue_dp_read(d6, DP_CTRL_STAT), LAMBDA d7 :
    Then(dap_queue_dp_write(SetCtrlStat(d7, PowerUpOverrun),
                            DP_CTRL_STAT, PowerUpOverrun), LAMBDA d8 :
    Then(dap_queue_dp_read(d8, DP_CTRL_STAT), LAMBDA d9 :
    DpRun(d9))))))))))

\* The loop condition of dap_dp_init, with one pass too many.
MoreAttempts_eleven(i) == i <= DP_INIT_ATTEMPTS

\* The loop condition of dap_dp_init.
MoreAttempts(i) == i < DP_INIT_ATTEMPTS

----------------------------------------------------------------------------
(* The "dap ti_be_32_quirks" command.                                      *)

\* The handler on the DAP record d with the arguments argv: what it returns
\* and the DAP record it leaves.
dap_ti_be_32_quirks_command(d, argv) ==
    IF Len(argv) = 0 THEN [ret |-> ERROR_OK, dap |-> d]
    ELSE IF Len(argv) = 1 THEN
        IF argv[1] > 1 THEN [ret |-> ERROR_COMMAND_SYNTAX_ERROR, dap |-> d]
        ELSE [ret |-> ERROR_OK, dap |-> [d EXCEPT !.ti_be_32_quirks = (argv[1] = 1)]]
    ELSE [ret |-> ERROR_COMMAND_SYNTAX_ERROR, dap |-> d]

----------------------------------------------------------------------------
(* The AP scan and the other "dap" commands.  They run on a record d: the  *)
(* array dap->ap[] (d.ap), dap->apsel, the journal, the destinations of the *)
(* register reads (d.got), the caller's *ap_out (d.out), the IDR and BASE  *)
(* registers of the target's APs (d.idr, d.base) and the transport's       *)
(* behaviour during the call (d.fault).                                    *)

AP_REG_IDR == \hFC
MEM_AP_REG_BASE == \hF8

\* IDR bits 27-24: JEDEC bank (0x4 for ARM), 23-17: JEDEC code (0x3B for
\* ARM), 3-0: AP type.
IDR_JEP106 == W32(\h0F, \hFE, 0, 0)
IDR_JEP106_ARM == W32(\h04, \h76, 0, 0)
IDR_TYPE == W32(0, 0, 0, \h0F)

AP_TYPE_JTAG_AP == W32(0, 0, 0, \h00)
AP_TYPE_AHB_AP == W32(0, 0, 0, \h01)
AP_TYPE_APB_AP == W32(0, 0, 0, \h02)
AP_TYPE_AXI_AP == W32(0, 0, 0, \h04)

\* "Maximum AP number is 255 since the SELECT register is 8 bits"
LAST_AP == 255

ApNums == 0..LAST_AP

ApQueueRead(d, ap_num, reg, slot) == QueueOp(d, <<"AP_READ", ap_num, reg, slot>>)

\* The register of the target's AP that a journal entry reads.
ApRegister(d, op) == IF op[3] = AP_REG_IDR THEN d.idr[op[2]] ELSE d.base[op[2]]

ApDeliver(d, op) == [d EXCEPT !.got[op[4]] = ApRegister(d, op)]

RECURSIVE ApDeliverAll(_, _, _)
ApDeliverAll(d, todo, n) ==
    IF n = 0 \/ todo = <<>> THEN d
    ELSE ApDeliverAll(ApDeliver(d, Head(todo)), Tail(todo), n - 1)

\* dap_run on a journal of AP register reads.
ApRun(d) ==
    IF d.nrun + 1 \in d.fault.run
    THEN [ApDeliverAll(d, d.journal, d.fault.done)
             EXCEPT !.journal = <<>>, !.nrun = @ + 1, !.ret = FlushError(d.nrun + 1)]
    ELSE [ApDeliverAll(d, d.journal, Len(d.journal))
             EXCEPT !.journal = <<>>, !.nrun = @ + 1, !.ret = ERROR_OK]

\* The test of dap_find_ap without the JEDEC code.
IdrMatch_type_only(id_val, type_to_find) == WAnd(id_val, IDR_TYPE) = type_to_find

\* "Jedec codes match" and "type matches"
IdrMatch(id_val, type_to_find) ==
    /\ WAnd(id_val, IDR_JEP106) = IDR_JEP106_ARM
    /\ WAnd(id_val, IDR_TYPE) = type_to_find

\* One pass of the loop of dap_find_ap; d.pc tells whether it has returned.
FindApFlushed(d, type_to_find, ap_num) ==
    IF d.ret = ERROR_OK /\ IdrMatch(d.got.id_val, type_to_find)
    THEN [d EXCEPT !.out = ap_num, !.pc = "returned"]
    ELSE d

FindApQueued(d, type_to_find, ap_num) ==
    IF d.ret # ERROR_OK THEN [d EXCEPT !.pc = "returned"]
    ELSE FindApFlushed(ApRun(d), type_to_find, ap_num)

FindApPass(d, type_to_find, ap_num) ==
    IF d.pc = "returned" THEN d
    ELSE FindApQueued(ApQueueRead([d EXCEPT !.got.id_val = ZeroWord],
                                  ap_num, AP_REG_IDR, "id_val"),
                      type_to_find, ap_num)

\* The passes for ap_num = lo, lo + 1, ..., hi in this order, taken as the
\* passes of the lower half of the range and then those of the upper half.
RECURSIVE FindApLoop(_, _, _, _)
FindApLoop(d, type_to_find, lo, hi) ==
    IF lo = hi THEN FindApPass(d, type_to_find, lo)
    ELSE CHOOSE r \in {FindApLoop(x, type_to_find, (lo + hi) \div 2 + 1, hi) :
                           x \in {FindApLoop(d, type_to_find, lo, (lo + hi) \div 2)}} : TRUE

\* return ERROR_FAIL when the loop has run out.
FindApEnd(d) == IF d.pc = "returned" THEN d ELSE Return(d, ERROR_FAIL)

dap_find_ap(d, type_to_find) ==
    FindApEnd(FindApLoop([d EXCEPT !.pc = "loop"], type_to_find, 0, LAST_AP))

\* x & ~y
WClear(x, y) == [i \in 1..4 |-> x[i] - BitAnd(x[i], y[i])]

\* The commands with the usage [ap_num]: the AP they act on, or none when
\* the arguments are refused.
ApselArg(d, argv) ==
    IF Len(argv) = 0 THEN d.apsel
    ELSE IF Len(argv) = 1 /\ argv[1] < 256 THEN argv[1]
    ELSE -1

\* One register of the AP apsel read into a destination and flushed.
ApReadNow(d, apsel, reg, slot) ==
    Then(ApQueueRead(d, apsel, reg, slot), LAMBDA d1 : ApRun(d1))

dap_apsel_command(d, argv) ==
    IF ApselArg(d, argv) < 0 THEN Return(d, ERROR_COMMAND_SYNTAX_ERROR)
    ELSE ApReadNow([d EXCEPT !.apsel = ApselArg(d, argv)],
                   ApselArg(d, argv), AP_REG_IDR, "apid")

dap_apid_command(d, argv) ==
    IF ApselArg(d, argv) < 0 THEN Return(d, ERROR_COMMAND_SYNTAX_ERROR)
    ELSE ApReadNow(d, ApselArg(d, argv), AP_REG_IDR, "apid")

dap_baseaddr_command(d, argv) ==
    IF ApselArg(d, argv) < 0 THEN Return(d, ERROR_COMMAND_SYNTAX_ERROR)
    ELSE ApReadNow(d, ApselArg(d, argv), MEM_AP_REG_BASE, "baseaddr")

dap_memaccess_command(d, argv) ==
    IF Len(argv) = 0 THEN Return(d, ERROR_OK)
    ELSE IF Len(argv) = 1
        THEN Return([d EXCEPT !.ap[d.apsel].memaccess_tck = argv[1]], ERROR_OK)
    ELSE Return(d, ERROR_COMMAND_SYNTAX_ERROR)

dap_apcsw_command(d, argv) ==
    IF Len(argv) = 0 THEN Return(d, ERROR_OK)
    ELSE IF Len(argv) = 1 THEN
        IF argv[1] > 1 THEN Return(d, ERROR_COMMAND_SYNTAX_ERROR)
        ELSE IF argv[1] # 0
            THEN Return([d EXCEPT !.ap[d.apsel].csw_default = WOr(@, CSW_SPROT)], ERROR_OK)
        ELSE Return([d EXCEPT !.ap[d.apsel].csw_default = WClear(@, CSW_SPROT)], ERROR_OK)
    ELSE Return(d, ERROR_COMMAND_SYNTAX_ERROR)

----------------------------------------------------------------------------
(* The ROM-table walkers.  One activation of a walker is computed on a     *)
(* record w: the call record w.m of its target reads, its arguments and    *)
(* locals, the caller's *addr and *idx (w.addr, w.idx), and where the      *)
(* activation stands after the step (w.out): at the top of its loop        *)
(* ("loop"), calling itself on w.component_base ("call"), or returned with *)
(* w.retval ("ret").                                                       *)

ERROR_TARGET_RESOURCE_NOT_AVAILABLE == "ERROR_TARGET_RESOURCE_NOT_AVAILABLE"

\* x & 0xFFFFF000 of an address, and of a word
Page(x) == x - (x % 4096)

PAGE_MASK == W32(\hFF, \hFF, \hF0, 0)

\* uint32_t addition of two words, lane by lane with the carries
Add32(x, y) ==
    LET s1 == x[1] + y[1]
        s2 == x[2] + y[2] + s1 \div 256
        s3 == x[3] + y[3] + s2 \div 256
        s4 == x[4] + y[4] + s3 \div 256
    IN  <<s1 % 256, s2 % 256, s3 % 256, s4 % 256>>

\* romentry & 0x1
Present(romentry) == romentry[1] % 2 = 1

\* (dbgbase & 0xFFFFF000) + (romentry & 0xFFFFF000)
ComponentBase(dbgbase, romentry) ==
    ToAddr(Add32(ToWord(Page(dbgbase)), WAnd(romentry, PAGE_MASK)))

\* (c_cid1 >> 4) & 0x0f
CidClass(c_cid1) == (c_cid1[1] \div 16) % 16

WalkRead(w, address) == [w EXCEPT !.m = mem_ap_read_atomic_u32(w.m, address)]

WalkReturn(w, retval) == [w EXCEPT !.out = "ret", !.retval = retval]

\* The statements after the loop of dap_lookup_cs_component.
LookupEnd(w) ==
    WalkReturn(w, IF w.addr = 0 THEN ERROR_TARGET_RESOURCE_NOT_AVAILABLE ELSE ERROR_OK)

\* entry_offset += 4 and the loop condition romentry > 0.
LookupNext(w) ==
    IF w.romentry # ZeroWord
    THEN [w EXCEPT !.entry_offset = @ + 4, !.out = "loop"]
    ELSE LookupEnd([w EXCEPT !.entry_offset = @ + 4])

\* The read of the device type and the comparison with the wanted type.
LookupDevtype(w) ==
    LET w1 == WalkRead(w, BitOr(Page(w.component_base), \hFCC))
    IN  IF w1.m.ret # ERROR_OK THEN WalkReturn(w1, w1.m.ret)
        ELSE IF w1.m.value[1] # w.type THEN LookupNext(w1)
        ELSE IF w.idx = 0 THEN LookupEnd([w1 EXCEPT !.addr = w.component_base])
        ELSE LookupNext([w1 EXCEPT !.idx = @ - 1])

\* The body of the loop for a present entry, from the read of CID1.
LookupComponent(w) ==
    LET w1 == WalkRead(w, BitOr(w.component_base, \hFF4))
    IN  IF w1.m.ret # ERROR_OK THEN WalkReturn(w1, w1.m.ret)
        ELSE IF CidClass(w1.m.value) = 1 THEN [w1 EXCEPT !.out = "call"]
        ELSE LookupDevtype(w1)

\* One pass of the loop of dap_lookup_cs_component, up to the recursive call
\* when it makes one.
LookupEntry(w) ==
    LET w1 == WalkRead(w, BitOr(Page(w.dbgbase), w.entry_offset))
        w2 == [w1 EXCEPT !.romentry = w1.m.value,
                         !.component_base = ComponentBase(w.dbgbase, w1.m.value)]
    IN  IF w1.m.ret # ERROR_OK THEN WalkReturn(w1, w1.m.ret)
        ELSE IF Present(w2.romentry) THEN LookupComponent(w2)
        ELSE LookupNext(w2)

\* The rest of the pass after the recursive call returned retval.
LookupAfterCall(w, retval) ==
    IF retval = ERROR_OK THEN LookupEnd(w)
    ELSE IF retval # ERROR_TARGET_RESOURCE_NOT_AVAILABLE THEN WalkReturn(w, retval)
    ELSE LookupDevtype(w)

\* mem_ap_read_u32 into the k-th of the nine locals of dap_read_part_id.
PartIdRead(m, address, k) ==
    Then(mem_ap_setup_transfer(m, WOr(CSW_32BIT, CSW_ADDRINC_OFF), BdWindow(address)),
         LAMBDA m1 : dap_queue_ap_read(m1, BdReg(address), "read_buf", k, address))

\* The registers dap_read_part_id reads, in its order: pid0..pid3, pid4,
\* cid0..cid3.
PartIdRegs == <<\hFE0, \hFE4, \hFE8, \hFEC, \hFD0, \hFF0, \hFF4, \hFF8, \hFFC>>

RECURSIVE PartIdReads(_, _, _)
PartIdReads(m, component_base, k) ==
    IF k > Len(PartIdRegs) THEN m
    ELSE Then(PartIdRead(m, component_base + PartIdRegs[k], k),
              LAMBDA m1 : PartIdReads(m1, component_base, k + 1))

dap_read_part_id(m, component_base) ==
    Then(PartIdReads(m, component_base, 1), LAMBDA m1 : dap_run(m1))

\* *cid of dap_read_part_id
PartIdCid(m) == W32(m.rd[9][1], m.rd[8][1], m.rd[7][1], m.rd[6][1])

\* (cid & 0xffff0fff) == 0xb105000d
is_dap_cid_ok(cid) == WAnd(cid, W32(\hFF, \hFF, \h0F, \hFF)) = W32(\hB1, \h05, 0, \h0D)

\* (cid >> 12) & 0xf
CidClassOf(cid) == cid[2] \div 16

\* The depth above which dap_rom_display gives up.
ROM_DEPTH_LIMIT == 16

\* The first entry offset dap_rom_display does not read, 0xF00.
ROM_ENTRIES_END == 3840

\* dap_rom_display for a component of class 1 or 9, from the read of
\* MEMTYPE or DEVTYPE.
RomDisplayClass(w, class) ==
    LET w1 == WalkRead(w, BitOr(w.base_addr, \hFCC))
    IN  IF class # 1 /\ class # 9 THEN WalkReturn(w, ERROR_OK)
        ELSE IF w1.m.ret # ERROR_OK THEN WalkReturn(w1, w1.m.ret)
        ELSE IF class = 1 THEN [w1 EXCEPT !.entry_offset = 0, !.out = "loop"]
        ELSE WalkReturn(w1, ERROR_OK)

\* dap_rom_display giving up one level later.
RomDisplayEnter_late_limit(w) ==
    LET w1 == [w EXCEPT !.m = dap_read_part_id(w.m, w.base_addr)]
    IN  IF w.depth > ROM_DEPTH_LIMIT + 1 THEN WalkReturn(w, ERROR_FAIL)
        ELSE IF w1.m.ret # ERROR_OK THEN WalkReturn(w1, ERROR_OK)
        ELSE IF ~is_dap_cid_ok(PartIdCid(w1.m)) THEN WalkReturn(w1, ERROR_OK)
        ELSE RomDisplayClass(w1, CidClassOf(PartIdCid(w1.m)))

\* dap_rom_display from its entry to the top of the loop over the entries.
RomDisplayEnter(w) ==
    LET w1 == [w EXCEPT !.m = dap_read_part_id(w.m, w.base_addr)]
    IN  IF w.depth > ROM_DEPTH_LIMIT THEN WalkReturn(w, ERROR_FAIL)
        ELSE IF w1.m.ret # ERROR_OK THEN WalkReturn(w1, ERROR_OK)
        ELSE IF ~is_dap_cid_ok(PartIdCid(w1.m)) THEN WalkReturn(w1, ERROR_OK)
        ELSE RomDisplayClass(w1, CidClassOf(PartIdCid(w1.m)))

\* One pass of the loop of dap_rom_display, up to the recursive call when
\* it makes one.
RomDisplayEntry(w) ==
    LET w1 == WalkRead(w, BitOr(w.base_addr, w.entry_offset))
        romentry == w1.m.value
    IN  IF w.entry_offset >= ROM_ENTRIES_END THEN WalkReturn(w, ERROR_OK)
        ELSE IF w1.m.ret # ERROR_OK THEN WalkReturn(w1, w1.m.ret)
        ELSE IF Present(romentry)
             THEN [w1 EXCEPT !.component_base = ComponentBase(w.base_addr, romentry),
                             !.out = "call"]
        ELSE IF romentry # ZeroWord THEN [w1 EXCEPT !.entry_offset = @ + 4, !.out = "loop"]
        ELSE WalkReturn(w1, ERROR_OK)

\* The rest of the pass after the recursive call returned retval.
RomDisplayAfterCall(w, retval) ==
    IF retval # ERROR_OK THEN WalkReturn(w, retval)
    ELSE [w EXCEPT !.entry_offset = @ + 4, !.out = "loop"]

----------------------------------------------------------------------------
(* Bounds of the model and the inputs of the calls.                        *)

\* Driver calls in one run of Spec, of SpecDeep and of SpecFault.
MaxCalls == 2
MaxDeepCalls == 3
MaxFaultCalls == 2
\* Driver calls in one run of SpecRoundTrip.
MaxTripCalls == 4
\* Driver calls in one run of SpecBlockFault.
MaxBlockFaultCalls == 1
\* Driver calls in one run of SpecReplay.
MaxReplayCalls == 3
\* Commands and probes in one run of SpecCommand.
MaxCommandCalls == 3
\* Calls of dap_dp_init in one run of SpecDpInit.
MaxDpCalls == 2
\* Queue operations the link refuses during one call of dap_dp_init.
MaxDpRefused == 2
\* The largest count of a block request.
MaxCount == 4
\* The latest queue operation of a call that the transport may refuse.
MaxQFail == 3
\* The most journal entries a failing flush completes.
MaxDone == 2
\* Setup calls, flushes and apcsw commands in one run of SpecSetup.
MaxSetupCalls == 3
\* Setup calls and flushes in one run of SpecSetupFault.
MaxSetupFaultCalls == 2
\* Commands in one run of SpecDapCommands.
MaxDapCommands == 2
\* Calls of dap_find_ap in one run of SpecFindAp.
MaxScanCalls == 2
\* The latest flush of a scan that the transport may fail.
MaxScanFlush == 2

Sizes == {1, 2, 3, 4}

\* Block addresses: inside a TAR auto-increment block, 4 and 2 bytes below a
\* block boundary, and on a boundary.
BlockAddrs == {\h100, \h3FC, \h3FE, \h1000}

\* Word addresses: two in one 16-byte window, one in the window of \h1000.
WordAddrs == {\h20000004, \h20000008, \h1004}

\* The word addresses of the calls on a failing transport.
FaultWordAddrs == {\h20000004, \h1004}

WordFor(address) ==
    IF address = \h20000004 THEN W32(\hDE, \hAD, \hBE, \hEF)
    ELSE IF address = \h20000008 THEN W32(\hCA, \hFE, \hBA, \hBE)
    ELSE W32(\h12, \h34, \h56, \h78)

\* The caller's buffer of a block write: AA, BB, CC, ...
Buffer(n) == [i \in 1..n |-> (17 * (9 + i)) % 256]

\* The block requests: every valid size, count and address, and one request
\* of a size the engine rejects.
Requests ==
    [size : Sizes \ {3}, count : 0..MaxCount, address : BlockAddrs]
    \cup [size : {3}, count : {1}, address : {\h3FC}]

\* The requests a caller goes on with after its first one.
NextRequests == [size : Sizes \ {3}, count : {1, MaxCount}, address : {\h100}]

\* The CSW values the driver asks mem_ap_setup_csw for.
CswRequests ==
    {WOr(s, i) : s \in {CSW_8BIT, CSW_16BIT, CSW_32BIT},
                 i \in {CSW_ADDRINC_OFF, CSW_ADDRINC_SINGLE, CSW_ADDRINC_PACKED}}

\* The addresses mem_ap_setup_tar is asked for.
TarRequests == {0, \h100, \h104}

\* What the transport may do during one call.
Faults ==
    {NoFault}
    \cup {[NoFault EXCEPT !.q = k] : k \in 1..MaxQFail}
    \cup {[NoFault EXCEPT !.run = {1}, !.done = d] : d \in 0..MaxDone}
    \cup {[NoFault EXCEPT !.run = {1, 2}, !.done = d] : d \in 0..MaxDone}
    \cup {[NoFault EXCEPT !.q = k, !.run = {1}] : k \in 1..MaxQFail}
    \cup {[NoFault EXCEPT !.oom = TRUE]}

\* What malloc may have left in read_buf.
JunkWords == {ZeroWord, W32(\hEE, \hEE, \hEE, \hEE)}

NoBuf == [data |-> <<>>, words |-> 0, wrapped |-> FALSE]

\* The deepest nesting of dap_lookup_cs_component the model follows.
MaxLookupDepth == 4
\* The largest *idx a lookup is called with.
MaxLookupIdx == 3
\* The latest flush of one step of a walk that the transport may fail.
MaxWalkFlush == 3

\* A present ROM-table entry with the offset off, and one that is not
\* present.
RomEntry(off) == ToWord(off + 3)

RomAbsent(off) == ToWord(off + 2)

\* The identification registers of a component: class, the low byte of the
\* register at 0xFCC and the first byte of the CID preamble.
RomComp(class, devtype, cid0) == [class |-> class, devtype |-> devtype, cid0 |-> cid0]

\* A table with two components, a nested table with two more (one of them
\* with a broken preamble), an entry that is not present and a last
\* component.  The nested table has system memory on its bus (MEMTYPE 1).
NestedRom ==
    [name |-> "nested", root |-> \h10000, tree |-> TRUE,
     tables |-> (\h10000 :> <<RomEntry(\h1000), RomEntry(\h2000), RomAbsent(\h6000),
                              RomEntry(\h5000), ZeroWord>>
                 @@ \h12000 :> <<RomEntry(\h1000), RomEntry(\h2000), ZeroWord>>),
     comps |-> (\h10000 :> RomComp(1, 0, \h0D) @@ \h11000 :> RomComp(9, \h15, \h0D)
                @@ \h12000 :> RomComp(1, 1, \h0D) @@ \h13000 :> RomComp(9, \h15, \h0D)
                @@ \h14000 :> RomComp(9, \h13, 0) @@ \h15000 :> RomComp(9, \h15, \h0D))]

\* A table at 0x1000 whose first entry has the offset -0x1000: a component
\* at the address 0.
ZeroRom ==
    [name |-> "zero", root |-> \h1000, tree |-> TRUE,
     tables |-> (\h1000 :> <<W32(\hFF, \hFF, \hF0, \h03), RomEntry(\h1000), ZeroWord>>),
     comps |-> (\h1000 :> RomComp(1, 0, \h0D) @@ 0 :> RomComp(9, \h15, \h0D)
                @@ \h2000 :> RomComp(9, \h15, \h0D))]

\* A table whose first entry refers to the table itself.
SelfRom ==
    [name |-> "self", root |-> \h20000, tree |-> FALSE,
     tables |-> (\h20000 :> <<RomEntry(0), ZeroWord>>),
     comps |-> (\h20000 :> RomComp(1, 0, \h0D))]

\* Two tables that refer to each other.
PairRom ==
    [name |-> "pair", root |-> \h30000, tree |-> FALSE,
     tables |-> (\h30000 :> <<RomEntry(\h1000), ZeroWord>>
                 @@ \h31000 :> <<W32(\hFF, \hFF, \hF0, \h03), ZeroWord>>),
     comps |-> (\h30000 :> RomComp(1, 0, \h0D) @@ \h31000 :> RomComp(1, 0, \h0D))]

\* A table whose 960 entries are all used, none of them present; the
\* reserved word after the last entry reads as zero.
FullRom ==
    [name |-> "full", root |-> \h40000, tree |-> TRUE,
     tables |-> (\h40000 :> [i \in 1..961 |-> IF i = 961 THEN ZeroWord ELSE RomAbsent(\h1000)]),
     comps |-> (\h40000 :> RomComp(1, 0, \h0D))]

Roms == {NestedRom, ZeroRom, SelfRom, PairRom, FullRom}

RomNamed(name) == CHOOSE r \in Roms : r.name = name

\* The identification registers of a component and their low bytes.
RomIdRegs(c) ==
    \hFCC :> c.devtype @@ \hFD0 :> \h04 @@ \hFE0 :> \h06 @@ \hFE4 :> \hB9
    @@ \hFE8 :> \h4B @@ \hFEC :> 0 @@ \hFF0 :> c.cid0 @@ \hFF4 :> 16 * c.class
    @@ \hFF8 :> \h05 @@ \hFFC :> \hB1

\* The word addresses a ROM defines: the entries of its tables and the
\* identification registers of its components.
RomAddrs(rom) ==
    UNION {{b + 4 * (i - 1) : i \in 1..Len(rom.tables[b])} : b \in DOMAIN rom.tables}
    \cup {b + r : b \in DOMAIN rom.comps, r \in DOMAIN RomIdRegs(RomComp(0, 0, 0))}

RomInTable(rom, b, a) == a >= b /\ a < b + 4 * Len(rom.tables[b])

RomWordAt(rom, a) ==
    IF \E b \in DOMAIN rom.tables : RomInTable(rom, b, a)
    THEN LET b == CHOOSE t \in DOMAIN rom.tables : RomInTable(rom, t, a)
         IN  rom.tables[b][(a - b) \div 4 + 1]
    ELSE W32(0, 0, 0, RomIdRegs(rom.comps[Page(a)])[a % 4096])

\* The target memory that holds a ROM, byte by byte (little-endian).
ImageOf(rom) ==
    [x \in {a + k : a \in RomAddrs(rom), k \in 0..3} |->
        RomWordAt(rom, x - (x % 4))[(x % 4) + 1]]

\* The device types a lookup asks for: a trace source, and the value of a
\* table's MEMTYPE register.
LookupTypes == {\h15, \h01}

\* What the transport may do during one step of a walk: nothing, or fail
\* one of the step's flushes.
WalkFaults ==
    {NoFault} \cup {[NoFault EXCEPT !.run = {k}] : k \in 1..MaxWalkFlush}

----------------------------------------------------------------------------
(* The state machine: one action per exported entry point.                 *)

\* What the link may do in one pass of dap_dp_init.
DpFaults ==
    {NoDpFault}
    \cup {[step |-> k, kind |-> "refused"] : k \in {1, 2, 3, 4, 7, 8, 9}}
    \cup {[step |-> k, kind |-> e] : k \in {5, 6}, e \in {"error", "noack"}}
    \cup {[step |-> 10, kind |-> "error"]}

\* dap_dp_init has not been called; the target's DP may hold a sticky error.
DpIdle(sticky) ==
    [pc |-> "idle", i |-> 0, retval |-> ERROR_OK, tried |-> 0, failed |-> 0,
     refused |-> 0, calls |-> 0, ops |-> <<>>, fault |-> NoDpFault,
     tgt |-> [ctrl |-> ZeroWord, sticky |-> sticky, lastw |-> ZeroWord]]

\* The driver's records after dap_init, on a target whose sticky error is
\* one of S and whose memory is one of M.
InitDriverOn(S, M) ==
    /\ dap \in [ti_be_32_quirks : BOOLEAN, select : {ZeroWord}, last_read : {NULL},
                 dp_ctrl_stat : {ZeroWord}]
    /\ dp \in {DpIdle(s) : s \in S}
    /\ ap = [csw_value |-> ZeroWord, tar_value |-> 0, csw_default |-> ZeroWord,
             packed_transfers |-> FALSE, unaligned_access_bad |-> FALSE,
             tar_autoincr_block |-> TAR_AUTOINCR_BLOCK]
    /\ journal = <<>>
    /\ tgt \in {[csw |-> ZeroWord, tar |-> 0, mem |-> mem, packed |-> p,
                 be32 |-> dap.ti_be_32_quirks] :
                    mem \in M, p \in IF dap.ti_be_32_quirks THEN {FALSE} ELSE BOOLEAN}
    /\ value = ZeroWord
    /\ req \in Requests
    /\ call = [name |-> "dap_init"]
    /\ ret = ERROR_OK
    /\ ops = <<>>
    /\ exec = <<>>
    /\ buf = NoBuf
    /\ nrun = 0
    /\ hist = [n |-> 0, ok |-> TRUE]

\* The same on a target whose memory holds its reset pattern.
InitDriver(S) == InitDriverOn(S, {<<>>})

\* No setup call was counted, no command was given and no walk was started.
NoTally == [writes |-> 0, changes |-> 0, forced |-> 0]

NoAps == [pc |-> "idle"]

NoWalk == [pc |-> "idle"]

\* The state after dap_init, on a target whose sticky error is one of S.
InitOn(S) ==
    /\ InitDriver(S)
    /\ tally = NoTally
    /\ aps = NoAps
    /\ walk = NoWalk

Init == InitOn({FALSE})

\* The record a call is computed on.
Machine(f, junk) ==
    [ap |-> ap, quirks |-> dap.ti_be_32_quirks, journal |-> journal, tgt |-> tgt,
     value |-> value, rd |-> <<>>, tar |-> ZeroWord, csw |-> ZeroWord,
     tar_ok |-> FALSE, ops |-> <<>>, exec |-> <<>>, nq |-> 0, nrun |-> 0,
     ret |-> ERROR_OK, fault |-> f, junk |-> junk, buf |-> NoBuf]

\* The driver's records after a call that ended in m.
Returned(m, c) ==
    /\ ap' = m.ap
    /\ journal' = m.journal
    /\ tgt' = m.tgt
    /\ value' = m.value
    /\ call' = c
    /\ ret' = m.ret
    /\ ops' = m.ops
    /\ exec' = m.exec
    /\ buf' = m.buf
    /\ nrun' = m.nrun
    /\ hist' = [n |-> hist.n + 1, ok |-> hist.ok /\ m.ret = ERROR_OK]
    /\ UNCHANGED <<dap, req, dp>>

\* The state after a call that ended in m.
Done(m, c) == Returned(m, c) /\ UNCHANGED <<tally, aps, walk>>

\* A call is made while fewer than N calls were made, and the transport
\* fails in at most one call of a run.
MayCall(f, N) ==
    /\ hist.n < N
    /\ IF f = NoFault THEN TRUE ELSE hist.ok

\* The fault of a call is one the call met: the refused queue operation was
\* attempted, the failing flush was reached and had done entries to complete.
Met(m, f) ==
    /\ f.q > 0 => m.nq >= f.q
    /\ f.run # {} => m.nrun >= Cardinality(f.run) /\ Len(m.exec) >= f.done
    /\ f.oom => m.nq = 0 /\ m.ret = ERROR_FAIL

Call(name, address, f) ==
    [name |-> name, size |-> req.size, count |-> req.count, address |-> address,
     fault |-> f]

\* The step of a call that ended in m.
Step(m, c, f) == Met(m, f) /\ Done(m, c)

MemApInit(F, N) ==
    \E f \in F :
        /\ MayCall(f, N)
        /\ Step(mem_ap_init(Machine(f, ZeroWord)), Call("mem_ap_init", 0, f), f)

MemApReadU32(F, A, N) ==
    \E f \in F, a \in A :
        /\ MayCall(f, N)
        /\ Step(mem_ap_read_u32(Machine(f, ZeroWord), a), Call("mem_ap_read_u32", a, f), f)

MemApReadAtomicU32(F, A, N) ==
    \E f \in F, a \in A :
        /\ MayCall(f, N)
        /\ Step(mem_ap_read_atomic_u32(Machine(f, ZeroWord), a),
             Call("mem_ap_read_atomic_u32", a, f), f)

MemApWriteU32(F, A, N) ==
    \E f \in F, a \in A :
        /\ MayCall(f, N)
        /\ Step(mem_ap_write_u32(Machine(f, ZeroWord), a, WordFor(a)),
             Call("mem_ap_write_u32", a, f), f)

MemApWriteAtomicU32(F, A, N) ==
    \E f \in F, a \in A :
        /\ MayCall(f, N)
        /\ Step(mem_ap_write_atomic_u32(Machine(f, ZeroWord), a, WordFor(a)),
             Call("mem_ap_write_atomic_u32", a, f), f)

MemApWriteBuf(F, N) ==
    \E f \in F :
        /\ MayCall(f, N)
        /\ Step(mem_ap_write(Machine(f, ZeroWord), Buffer(req.size * req.count),
                          req.size, req.count, req.address, TRUE),
             Call("mem_ap_write_buf", req.address, f), f)

MemApWriteBufNoincr(F, N) ==
    \E f \in F :
        /\ MayCall(f, N)
        /\ Step(mem_ap_write(Machine(f, ZeroWord), Buffer(req.size * req.count),
                          req.size, req.count, req.address, FALSE),
             Call("mem_ap_write_buf_noincr", req.address, f), f)

MemApReadBuf(F, N) ==
    \E f \in F, junk \in JunkWords :
        /\ MayCall(f, N)
        /\ f = NoFault => junk = ZeroWord
        /\ Step(mem_ap_read(Machine(f, junk), req.size, req.count, req.address, TRUE),
                Call("mem_ap_read_buf", req.address, f), f)

MemApReadBufNoincr(F, N) ==
    \E f \in F, junk \in JunkWords :
        /\ MayCall(f, N)
        /\ f = NoFault => junk = ZeroWord
        /\ Step(mem_ap_read(Machine(f, junk), req.size, req.count, req.address, FALSE),
                Call("mem_ap_read_buf_noincr", req.address, f), f)

DapRun(F, N) ==
    \E f \in F :
        /\ MayCall(f, N)
        /\ Step(dap_run(Machine(f, ZeroWord)), Call("dap_run", 0, f), f)

\* The argument lists of the commands.
CommandArgs == {<<>>, <<0>>, <<1>>, <<2>>, <<1, 1>>}

DapTiBe32QuirksCommand(N) ==
    \E argv \in CommandArgs :
        /\ hist.n < N
        /\ dap' = dap_ti_be_32_quirks_command(dap, argv).dap
        /\ ret' = dap_ti_be_32_quirks_command(dap, argv).ret
        /\ call' = [name |-> "dap_ti_be_32_quirks_command", argv |-> argv]
        /\ ops' = <<>>
        /\ exec' = <<>>
        /\ buf' = NoBuf
        /\ nrun' = 0
        /\ hist' = [hist EXCEPT !.n = @ + 1]
        /\ UNCHANGED <<ap, journal, tgt, value, req, dp, tally, aps, walk>>

\* The record a pass of dap_dp_init is computed on.
DpMachine(f) ==
    [dap |-> dap, journal |-> journal, tgt |-> dp.tgt, ops |-> <<>>, n |-> 0,
     ret |-> ERROR_OK, fault |-> f]

\* dap_dp_init up to its loop.
DapDpInitEnter ==
    /\ dp.pc = "idle"
    /\ dp.calls < MaxDpCalls
    /\ dap' = [dap EXCEPT !.select = DP_SELECT_INVALID, !.last_read = NULL]
    /\ dp' = [dp EXCEPT !.pc = "loop", !.i = 0, !.tried = 0, !.failed = 0,
                        !.refused = 0, !.ops = <<>>]
    /\ call' = [name |-> "dap_dp_init"]
    /\ UNCHANGED <<ap, journal, tgt, value, req, ret, ops, exec, buf, nrun, hist,
                   tally, aps, walk>>

\* The state after a pass that ended in d: break, or continue with i + 1.
DpPassDone(d) ==
    /\ dap' = d.dap
    /\ journal' = d.journal
    /\ dp' = [dp EXCEPT !.pc = IF d.ret = ERROR_OK THEN "break" ELSE "loop",
                        !.i = IF d.ret = ERROR_OK THEN @ ELSE @ + 1,
                        !.retval = d.ret,
                        !.tried = @ + 1,
                        !.failed = IF d.ret = ERROR_OK THEN @ ELSE @ + 1,
                        !.refused = IF d.fault.kind = "refused" THEN @ + 1 ELSE @,
                        !.ops = d.ops,
                        !.fault = d.fault,
                        !.tgt = d.tgt]
    /\ UNCHANGED <<ap, tgt, value, req, call, ret, ops, exec, buf, nrun, hist,
                   tally, aps, walk>>

\* One pass of the loop of dap_dp_init.
DapDpInitPass ==
    \E f \in DpFaults :
        /\ dp.pc = "loop"
        /\ MoreAttempts(dp.i)
        /\ f.kind = "refused" => dp.refused < MaxDpRefused
        /\ \E d \in {DpInitPass(DpMachine(f))} : DpPassDone(d)

\* return retval, after a break or when the loop has run out.
DapDpInitReturn ==
    /\ IF dp.pc = "loop" THEN ~MoreAttempts(dp.i) ELSE dp.pc = "break"
    /\ ret' = dp.retval
    /\ dp' = [dp EXCEPT !.pc = "idle", !.calls = @ + 1]
    /\ UNCHANGED <<ap, dap, journal, tgt, value, req, call, ops, exec, buf, nrun, hist,
                   tally, aps, walk>>

\* The IDR of an AHB-AP and of a JTAG-AP of ARM, and of an AP of type 1 of
\* another designer; an AP that does not exist reads as 0.
IDR_AHB == W32(\h24, \h77, \h00, \h11)
IDR_JTAG == W32(\h24, \h76, \h00, \h10)
IDR_OTHER == W32(\h24, \h00, \h00, \h11)

IdrValues == {ZeroWord, IDR_AHB, IDR_JTAG, IDR_OTHER}

\* The AP numbers at which the target may have an AP.
ProbeAps == {0, 1, LAST_AP}

IdrMaps ==
    {[i \in ApNums |-> IF i \in ProbeAps THEN g[i] ELSE ZeroWord] :
        g \in [ProbeAps -> IdrValues]}

\* The BASE register of the target's AP i.
BaseOf(i) == W32(\hE0, \h0F, \hF0, \h03)

\* dap->ap[] and dap->apsel after dap_init, on a target with the IDRs idr;
\* the record of AP 0 keeps its csw_default in the variable ap.
ApsInit(idr) ==
    [apsel |-> 0,
     memaccess_tck |-> [i \in ApNums |-> 255],
     csw_default |-> [i \in ApNums \ {0} |-> ZeroWord],
     idr |-> idr,
     base |-> [i \in ApNums |-> BaseOf(i)],
     got |-> [id_val |-> ZeroWord, dbgbase |-> ZeroWord, apid |-> ZeroWord,
              baseaddr |-> ZeroWord],
     out |-> NULL]

\* The record an AP scan or a command is computed on.
ApMachine(f) ==
    [apsel |-> aps.apsel,
     ap |-> [i \in ApNums |->
                [memaccess_tck |-> aps.memaccess_tck[i],
                 csw_default |-> IF i = 0 THEN ap.csw_default ELSE aps.csw_default[i]]],
     idr |-> aps.idr, base |-> aps.base, got |-> aps.got, out |-> aps.out,
     journal |-> journal, ops |-> <<>>, nq |-> 0, nrun |-> 0,
     ret |-> ERROR_OK, fault |-> f, pc |-> "entry"]

\* The state after a scan or a command that ended in d.
ApDone(d, c) ==
    /\ aps' = [apsel |-> d.apsel,
               memaccess_tck |-> [i \in ApNums |-> d.ap[i].memaccess_tck],
               csw_default |-> [i \in ApNums \ {0} |-> d.ap[i].csw_default],
               idr |-> d.idr, base |-> d.base, got |-> d.got, out |-> d.out]
    /\ ap' = [ap EXCEPT !.csw_default = d.ap[0].csw_default]
    /\ journal' = d.journal
    /\ call' = c
    /\ ret' = d.ret
    /\ ops' = d.ops
    /\ nrun' = d.nrun
    /\ hist' = [n |-> hist.n + 1, ok |-> hist.ok /\ d.ret = ERROR_OK]
    /\ UNCHANGED <<dap, tgt, value, req, exec, buf, dp, tally, walk>>

\* What the transport may do during a scan: refuse a queue operation, or
\* fail a flush after done of its reads.
ScanFaults ==
    {NoFault}
    \cup {[NoFault EXCEPT !.q = k] : k \in 1..MaxQFail}
    \cup {[NoFault EXCEPT !.run = {k}, !.done = n] : k \in 1..MaxScanFlush, n \in 0..1}

\* The fault of a scan or a command is one it met.
ApMet(d, f) ==
    /\ f.q > 0 => d.nq >= f.q
    /\ \A k \in f.run : d.nrun >= k

ApTypes == {AP_TYPE_JTAG_AP, AP_TYPE_AHB_AP}

DapFindAp(F, N) ==
    \E f \in F, type_to_find \in ApTypes :
        /\ MayCall(f, N)
        /\ \E d \in {dap_find_ap(ApMachine(f), type_to_find)} :
               /\ ApMet(d, f)
               /\ ApDone(d, [name |-> "dap_find_ap", type |-> type_to_find,
                             fault |-> f, out |-> aps.out])

\* The argument lists of the commands that take an AP number or a number
\* of cycles.
DapArgs == {<<>>, <<0>>, <<1>>, <<2>>, <<LAST_AP>>, <<LAST_AP + 1>>, <<0, 0>>}

\* What the transport may do during a command that reads one register.
ReadFaults ==
    {NoFault, [NoFault EXCEPT !.q = 1],
     [NoFault EXCEPT !.run = {1}], [NoFault EXCEPT !.run = {1}, !.done = 1]}

CommandCall(name, argv, f) == [name |-> name, argv |-> argv, fault |-> f]

DapApselCommand(N) ==
    \E argv \in DapArgs, f \in ReadFaults :
        /\ hist.n < N
        /\ \E d \in {dap_apsel_command(ApMachine(f), argv)} :
               ApMet(d, f) /\ ApDone(d, CommandCall("dap_apsel_command", argv, f))

DapApidCommand(N) ==
    \E argv \in DapArgs, f \in ReadFaults :
        /\ hist.n < N
        /\ \E d \in {dap_apid_command(ApMachine(f), argv)} :
               ApMet(d, f) /\ ApDone(d, CommandCall("dap_apid_command", argv, f))

DapBaseaddrCommand(N) ==
    \E argv \in DapArgs, f \in ReadFaults :
        /\ hist.n < N
        /\ \E d \in {dap_baseaddr_command(ApMachine(f), argv)} :
               ApMet(d, f) /\ ApDone(d, CommandCall("dap_baseaddr_command", argv, f))

DapMemaccessCommand(N) ==
    \E argv \in DapArgs :
        /\ hist.n < N
        /\ ApDone(dap_memaccess_command(ApMachine(NoFault), argv),
                  CommandCall("dap_memaccess_command", argv, NoFault))

DapApcswCommand(N) ==
    \E argv \in DapArgs :
        /\ hist.n < N
        /\ ApDone(dap_apcsw_command(ApMachine(NoFault), argv),
                  CommandCall("dap_apcsw_command", argv, NoFault))

\* The writes a setup call queued, the shadows it changed and the TAR
\* rewrite the increment mode of the cached CSW forced, added to the tally.
Tallied(m, forced) ==
    [writes |-> tally.writes + Len(m.ops),
     changes |-> tally.changes + (IF m.ap.csw_value # ap.csw_value THEN 1 ELSE 0)
                               + (IF m.ap.tar_value # ap.tar_value THEN 1 ELSE 0),
     forced |-> tally.forced + (IF forced THEN 1 ELSE 0)]

MemApSetupCsw(F, N) ==
    \E f \in F, csw \in CswRequests :
        /\ MayCall(f, N)
        /\ \E m \in {mem_ap_setup_csw(Machine(f, ZeroWord), csw)} :
               /\ Met(m, f)
               /\ Returned(m, [name |-> "mem_ap_setup_csw", csw |-> csw, fault |-> f])
               /\ tally' = Tallied(m, FALSE)
               /\ UNCHANGED <<aps, walk>>

MemApSetupTar(F, N) ==
    \E f \in F, tar \in TarRequests :
        /\ MayCall(f, N)
        /\ \E m \in {mem_ap_setup_tar(Machine(f, ZeroWord), tar)} :
               /\ Met(m, f)
               /\ Returned(m, [name |-> "mem_ap_setup_tar", tar |-> tar, fault |-> f])
               /\ tally' = Tallied(m, /\ tar = ap.tar_value
                                       /\ WAnd(ap.csw_value, CSW_ADDRINC_MASK) # ZeroWord)
               /\ UNCHANGED <<aps, walk>>

MemApSetupTransfer(F, N) ==
    \E f \in F, csw \in CswRequests, tar \in TarRequests :
        /\ MayCall(f, N)
        /\ \E m \in {mem_ap_setup_transfer(Machine(f, ZeroWord), csw, tar)} :
               /\ Met(m, f)
               /\ Returned(m, [name |-> "mem_ap_setup_transfer", csw |-> csw,
                               tar |-> tar, fault |-> f])
               /\ tally' = Tallied(m, /\ tar = ap.tar_value
                                       /\ WAnd(m.ap.csw_value, CSW_ADDRINC_MASK) # ZeroWord)
               /\ UNCHANGED <<aps, walk>>

\* The driver on a transport that never fails.
Next ==
    \/ MemApInit({NoFault}, MaxCalls)
    \/ MemApReadU32({NoFault}, WordAddrs, MaxCalls)
    \/ MemApReadAtomicU32({NoFault}, WordAddrs, MaxCalls)
    \/ MemApWriteU32({NoFault}, WordAddrs, MaxCalls)
    \/ MemApWriteAtomicU32({NoFault}, WordAddrs, MaxCalls)
    \/ MemApWriteBuf({NoFault}, MaxCalls)
    \/ MemApWriteBufNoincr({NoFault}, MaxCalls)
    \/ MemApReadBuf({NoFault}, MaxCalls)
    \/ MemApReadBufNoincr({NoFault}, MaxCalls)
    \/ DapRun({NoFault}, MaxCalls)

Spec == Init /\ [][Next]_vars

\* The same driver in longer runs.
NextDeep ==
    \/ MemApInit({NoFault}, MaxDeepCalls)
    \/ MemApReadU32({NoFault}, WordAddrs, MaxDeepCalls)
    \/ MemApReadAtomicU32({NoFault}, WordAddrs, MaxDeepCalls)
    \/ MemApWriteU32({NoFault}, WordAddrs, MaxDeepCalls)
    \/ MemApWriteAtomicU32({NoFault}, WordAddrs, MaxDeepCalls)
    \/ MemApWriteBuf({NoFault}, MaxDeepCalls)
    \/ MemApWriteBufNoincr({NoFault}, MaxDeepCalls)
    \/ MemApReadBuf({NoFault}, MaxDeepCalls)
    \/ MemApReadBufNoincr({NoFault}, MaxDeepCalls)
    \/ DapRun({NoFault}, MaxDeepCalls)

SpecDeep == Init /\ [][NextDeep]_vars

\* The driver on a transport that may refuse an operation or fail a flush.
NextFault ==
    \/ MemApInit(Faults, MaxFaultCalls)
    \/ MemApReadU32(Faults, FaultWordAddrs, MaxFaultCalls)
    \/ MemApReadAtomicU32(Faults, FaultWordAddrs, MaxFaultCalls)
    \/ MemApWriteU32(Faults, FaultWordAddrs, MaxFaultCalls)
    \/ MemApWriteAtomicU32(Faults, FaultWordAddrs, MaxFaultCalls)
    \/ MemApWriteBuf(Faults, MaxFaultCalls)
    \/ MemApWriteBufNoincr(Faults, MaxFaultCalls)
    \/ MemApReadBuf(Faults, MaxFaultCalls)
    \/ MemApReadBufNoincr(Faults, MaxFaultCalls)
    \/ DapRun(Faults, MaxFaultCalls)

SpecFault == Init /\ [][NextFault]_vars

\* The word accessors alone on the failing transport.
InitWord == Init /\ req = [size |-> 4, count |-> 1, address |-> \h1000]

NextWordFault ==
    \/ MemApReadU32(Faults, FaultWordAddrs, MaxFaultCalls)
    \/ MemApReadAtomicU32(Faults, FaultWordAddrs, MaxFaultCalls)
    \/ MemApWriteU32(Faults, FaultWordAddrs, MaxFaultCalls)
    \/ MemApWriteAtomicU32(Faults, FaultWordAddrs, MaxFaultCalls)

SpecWordFault == InitWord /\ [][NextWordFault]_vars

\* The block transfers alone on the failing transport.
NextBlockFault ==
    \/ MemApWriteBuf(Faults, MaxBlockFaultCalls)
    \/ MemApWriteBufNoincr(Faults, MaxBlockFaultCalls)
    \/ MemApReadBuf(Faults, MaxBlockFaultCalls)
    \/ MemApReadBufNoincr(Faults, MaxBlockFaultCalls)

SpecBlockFault == Init /\ [][NextBlockFault]_vars

\* The caller passes other arguments (size, count, address) in its next
\* block transfer.
CallerRequest(N) ==
    /\ hist.n < N
    /\ req' \in NextRequests \ {req}
    /\ UNCHANGED <<ap, dap, journal, tgt, value, call, ret, ops, exec, buf, nrun,
                   hist, dp, tally, aps, walk>>

\* The first flush of a call fails after done journal entries.
FlushFaults == {NoFault} \cup {[NoFault EXCEPT !.run = {1}, !.done = d] : d \in 0..MaxDone}

\* Block reads whose flush may fail, after the probe and block writes of any
\* other size.
NextReplay ==
    \/ MemApInit({NoFault}, MaxReplayCalls)
    \/ MemApWriteBuf({NoFault}, MaxReplayCalls)
    \/ MemApReadBuf(FlushFaults, MaxReplayCalls)
    \/ MemApReadBufNoincr(FlushFaults, MaxReplayCalls)
    \/ CallerRequest(MaxReplayCalls)

InitReplay == Init /\ req \in NextRequests

SpecReplay == InitReplay /\ [][NextReplay]_vars

\* The quirks command and the capability probe, from the DAP as dap_init
\* leaves it.
InitCommand ==
    /\ Init
    /\ ~dap.ti_be_32_quirks
    /\ req = [size |-> 4, count |-> 1, address |-> \h1000]

NextCommand ==
    \/ DapTiBe32QuirksCommand(MaxCommandCalls)
    \/ MemApInit(Faults, MaxCommandCalls)

SpecCommand == InitCommand /\ [][NextCommand]_vars

\* dap_dp_init on a link that may fail, from the DAP as dap_init leaves it.
InitDpInit ==
    /\ InitOn(BOOLEAN)
    /\ ~dap.ti_be_32_quirks
    /\ ~tgt.packed
    /\ req = [size |-> 4, count |-> 1, address |-> \h1000]

NextDpInit ==
    \/ DapDpInitEnter
    \/ DapDpInitPass
    \/ DapDpInitReturn

SpecDpInit == InitDpInit /\ [][NextDpInit]_vars

\* Block writes and reads of one range, with word reads in between.
NextRoundTrip ==
    \/ MemApReadU32({NoFault}, {\h1004}, MaxTripCalls)
    \/ MemApWriteBuf({NoFault}, MaxTripCalls)
    \/ MemApReadBuf({NoFault}, MaxTripCalls)

SpecRoundTrip == Init /\ [][NextRoundTrip]_vars

\* dap_find_ap on targets with APs at the numbers 0, 1 and 255.
InitFindAp ==
    /\ InitDriver({FALSE})
    /\ ~dap.ti_be_32_quirks
    /\ ~tgt.packed
    /\ req = [size |-> 4, count |-> 1, address |-> \h1000]
    /\ tally = NoTally
    /\ aps \in {ApsInit(idr) : idr \in IdrMaps}
    /\ walk = NoWalk

NextFindAp == DapFindAp(ScanFaults, MaxScanCalls)

SpecFindAp == InitFindAp /\ [][NextFindAp]_vars

\* The commands, on a target with an AHB-AP at AP 0 and a JTAG-AP at AP 255.
InitDapCommands ==
    /\ InitDriver({FALSE})
    /\ ~dap.ti_be_32_quirks
    /\ ~tgt.packed
    /\ req = [size |-> 4, count |-> 1, address |-> \h1000]
    /\ tally = NoTally
    /\ aps = ApsInit([i \in ApNums |-> IF i = 0 THEN IDR_AHB
                                      ELSE IF i = LAST_AP THEN IDR_JTAG
                                      ELSE ZeroWord])
    /\ walk = NoWalk

NextDapCommands ==
    \/ DapApselCommand(MaxDapCommands)
    \/ DapApidCommand(MaxDapCommands)
    \/ DapBaseaddrCommand(MaxDapCommands)
    \/ DapMemaccessCommand(MaxDapCommands)
    \/ DapApcswCommand(MaxDapCommands)
    \/ DapTiBe32QuirksCommand(MaxDapCommands)

SpecDapCommands == InitDapCommands /\ [][NextDapCommands]_vars

\* mem_ap_setup_csw and mem_ap_setup_tar in any order, with flushes and
\* "dap apcsw" commands in between.
NextSetup ==
    \/ MemApSetupCsw({NoFault}, MaxSetupCalls)
    \/ MemApSetupTar({NoFault}, MaxSetupCalls)
    \/ DapRun({NoFault}, MaxSetupCalls)
    \/ DapApcswCommand(MaxSetupCalls)

SpecSetup == InitDapCommands /\ [][NextSetup]_vars

\* The transport refuses a queue operation of a setup call.
SetupFaults == {NoFault} \cup {[NoFault EXCEPT !.q = k] : k \in 1..MaxQFail}

\* The three setup functions on a transport that may refuse to queue.
NextSetupFault ==
    \/ MemApSetupCsw(SetupFaults, MaxSetupFaultCalls)
    \/ MemApSetupTar(SetupFaults, MaxSetupFaultCalls)
    \/ MemApSetupTransfer(SetupFaults, MaxSetupFaultCalls)
    \/ DapRun({NoFault}, MaxSetupFaultCalls)

SpecSetupFault == InitDapCommands /\ [][NextSetupFault]_vars

\* No walk is running on a target that holds rom.
WalkIdle(rom) ==
    [pc |-> "idle", rom |-> rom.name, stack |-> <<>>, addr |-> 0, idx |-> 0,
     type |-> 0, retval |-> "none", faulted |-> FALSE, failed |-> -1,
     step |-> [fn |-> "none", depth |-> 0, offset |-> -1, reads |-> 0]]

\* An activation of a walker on dbgbase, at the nesting depth, called with
\* *idx = idx.
WalkFrame(dbgbase, depth, idx) ==
    [dbgbase |-> dbgbase, base_addr |-> Page(dbgbase), entry_offset |-> 0,
     component_base |-> 0, romentry |-> ZeroWord, depth |-> depth, pc |-> "enter",
     idx0 |-> idx]

WalkTop == walk.stack[Len(walk.stack)]

WalkRest == SubSeq(walk.stack, 1, Len(walk.stack) - 1)

\* The record the top activation's next step is computed on.
WalkMachine(f) ==
    [m |-> Machine(f, ZeroWord), dbgbase |-> WalkTop.dbgbase,
     base_addr |-> WalkTop.base_addr, entry_offset |-> WalkTop.entry_offset,
     component_base |-> WalkTop.component_base, romentry |-> WalkTop.romentry,
     depth |-> WalkTop.depth, addr |-> walk.addr, idx |-> walk.idx,
     type |-> walk.type, out |-> "loop", retval |-> ERROR_OK]

WalkFrameOf(w) ==
    [WalkTop EXCEPT !.entry_offset = w.entry_offset, !.romentry = w.romentry,
                    !.component_base = w.component_base, !.pc = "loop"]

\* The transport fails in at most one step of a walk, at a flush the step
\* reaches.
WalkMay(f) == f # NoFault => ~walk.faulted

WalkMet(w, f) == \A k \in f.run : w.m.nrun >= k

\* The stack after the step ended in w.
WalkStack(w) ==
    IF w.out = "ret" THEN WalkRest
    ELSE IF w.out = "loop" THEN Append(WalkRest, WalkFrameOf(w))
    ELSE WalkRest \o <<WalkFrameOf(w),
                       WalkFrame(w.component_base, w.depth + 1, w.idx)>>

\* The state after a step of the walk that ended in w: the walk goes on, or
\* its outermost activation returned.
WalkStepped(w, f, fn, offset) ==
    /\ WalkMet(w, f)
    /\ ap' = w.m.ap
    /\ journal' = w.m.journal
    /\ tgt' = w.m.tgt
    /\ value' = w.m.value
    /\ ops' = w.m.ops
    /\ exec' = w.m.exec
    /\ nrun' = w.m.nrun
    /\ ret' = IF w.out = "ret" /\ WalkRest = <<>> THEN w.retval ELSE ret
    /\ hist' = IF w.out = "ret" /\ WalkRest = <<>>
               THEN [n |-> hist.n + 1, ok |-> hist.ok /\ w.retval = ERROR_OK]
               ELSE hist
    /\ walk' = [walk EXCEPT
                  !.pc = IF w.out = "ret" /\ WalkRest = <<>> THEN "idle" ELSE @,
                  !.stack = WalkStack(w),
                  !.addr = IF w.out = "call" /\ walk.pc = "lookup" THEN 0 ELSE w.addr,
                  !.idx = w.idx,
                  !.retval = IF w.out = "ret" /\ WalkRest # <<>> THEN w.retval ELSE "none",
                  !.faulted = @ \/ f # NoFault,
                  !.failed = IF f = NoFault THEN @ ELSE w.m.ops[Len(w.m.ops)].haddr,
                  !.step = [fn |-> fn, depth |-> w.depth, offset |-> offset,
                            reads |-> Len(w.m.ops)]]
    /\ UNCHANGED <<dap, req, call, buf, dp, tally, aps>>

\* A walk starts in the state after dap_init (a run is one walk): the
\* caller's activation is entered.
WalkCalled(pc, c, idx, type) ==
    /\ walk.pc = "idle"
    /\ hist.n = 0
    /\ call' = c
    /\ walk' = [walk EXCEPT !.pc = pc, !.stack = <<WalkFrame(c.dbgbase, 0, idx)>>,
                            !.addr = 0, !.idx = idx, !.type = type, !.retval = "none",
                            !.faulted = FALSE, !.failed = -1,
                            !.step = [fn |-> "call", depth |-> 0, offset |-> -1,
                                      reads |-> 0]]
    /\ UNCHANGED <<ap, dap, journal, tgt, value, req, ret, ops, exec, buf, nrun,
                   hist, dp, tally, aps>>

\* dap_lookup_cs_component is called on the root table of the target's ROM.
DapLookupCsComponent ==
    \E type \in LookupTypes, idx \in 0..MaxLookupIdx :
        WalkCalled("lookup",
                   [name |-> "dap_lookup_cs_component", dbgbase |-> RomNamed(walk.rom).root,
                    type |-> type, idx |-> idx],
                   idx, type)

\* One pass of the loop of the innermost activation of the lookup.
DapLookupEntry ==
    /\ walk.pc = "lookup"
    /\ walk.retval = "none"
    /\ \E f \in WalkFaults :
        /\ WalkMay(f)
        /\ \E w \in {LookupEntry(WalkMachine(f))} :
            /\ w.out = "call" => Len(walk.stack) < MaxLookupDepth
            /\ WalkStepped(w, f, "entry", WalkTop.entry_offset)

\* The innermost activation of the lookup returned to its caller.
DapLookupReturn ==
    /\ walk.pc = "lookup"
    /\ walk.retval # "none"
    /\ \E f \in WalkFaults :
        /\ WalkMay(f)
        /\ \E w \in {LookupAfterCall(WalkMachine(f), walk.retval)} :
            WalkStepped(w, f, "return", -1)

\* dap_rom_display is called at depth 0 on the root table of the target's
\* ROM.
DapRomDisplay ==
    WalkCalled("display",
               [name |-> "dap_rom_display", dbgbase |-> RomNamed(walk.rom).root,
                type |-> 0, idx |-> 0],
               0, 0)

\* The innermost activation of the display runs from its entry to its loop.
DapRomDisplayEnter ==
    /\ walk.pc = "display"
    /\ walk.retval = "none"
    /\ WalkTop.pc = "enter"
    /\ \E f \in WalkFaults :
        /\ WalkMay(f)
        /\ \E w \in {RomDisplayEnter(WalkMachine(f))} :
            WalkStepped(w, f, "enter", -1)

\* One pass of the loop of the innermost activation of the display.
DapRomDisplayEntry ==
    /\ walk.pc = "display"
    /\ walk.retval = "none"
    /\ WalkTop.pc = "loop"
    /\ \E f \in WalkFaults :
        /\ WalkMay(f)
        /\ \E w \in {RomDisplayEntry(WalkMachine(f))} :
            WalkStepped(w, f, "entry", WalkTop.entry_offset)

\* The innermost activation of the display returned to its caller.
DapRomDisplayReturn ==
    /\ walk.pc = "display"
    /\ walk.retval # "none"
    /\ \E w \in {RomDisplayAfterCall(WalkMachine(NoFault), walk.retval)} :
        WalkStepped(w, NoFault, "return", -1)

\* The walkers on a target whose memory holds one of the ROMs.
InitRomWalk ==
    \E rom \in Roms :
        /\ InitDriverOn({FALSE}, {ImageOf(rom)})
        /\ ~dap.ti_be_32_quirks
        /\ ~tgt.packed
        /\ req = [size |-> 4, count |-> 1, address |-> \h1000]
        /\ tally = NoTally
        /\ aps = NoAps
        /\ walk = WalkIdle(rom)

NextRomWalk ==
    \/ DapLookupCsComponent
    \/ DapLookupEntry
    \/ DapLookupReturn
    \/ DapRomDisplay
    \/ DapRomDisplayEnter
    \/ DapRomDisplayEntry
    \/ DapRomDisplayReturn

SpecRomWalk == InitRomWalk /\ [][NextRomWalk]_vars


----------------------------------------------------------------------------
(* What the properties below speak about.                                  *)

WordCalls ==
    {"mem_ap_read_u32", "mem_ap_read_atomic_u32",
     "mem_ap_write_u32", "mem_ap_write_atomic_u32"}

IncrCalls == {"mem_ap_write_buf", "mem_ap_read_buf"}

BlockCalls == IncrCalls \cup {"mem_ap_write_buf_noincr", "mem_ap_read_buf_noincr"}

\* A queued operation as the transport sees it.
Queued(s) == [i \in DOMAIN s |-> <<s[i].kind, s[i].reg, s[i].val>>]

IsTarWrite(o) == o.kind = "AP_WRITE" /\ o.reg = \h04

IsCswWrite(o) == o.kind = "AP_WRITE" /\ o.reg = \h00

IsDrwAccess(o) == o.reg = \h0C

\* The banked data register of a word address: BD0 + 4 * word within window.
BankOf(address) == 16 + 4 * ((address \div 4) % 4)

SameWindow(a, b) == a \div 16 = b \div 16

\* The target as it is once the pending journal has been flushed.
Flushed == dap_run(Machine(NoFault, ZeroWord)).tgt

----------------------------------------------------------------------------
(* C9: mem_ap_write_u32 of 0xDEADBEEF to 0x20000004 on an AP whose CSW and *)
(* TAR shadows and csw_default are 0 queues exactly CSW <- 0xA2000002      *)
(* (32-bit, increment off, DBGSWENABLE, MASTER_DEBUG, HPROT1), then        *)
(* TAR <- 0x20000000, then BD1 <- 0xDEADBEEF.                              *)

FreshShadows ==
    ap.csw_value = ZeroWord /\ ap.tar_value = 0 /\ ap.csw_default = ZeroWord

E1Call == call'.name = "mem_ap_write_u32" /\ call'.address = \h20000004

E1Queue(csw) ==
    << <<"AP_WRITE", \h00, csw>>,
       <<"AP_WRITE", \h04, W32(\h20, 0, 0, 0)>>,
       <<"AP_WRITE", \h14, W32(\hDE, \hAD, \hBE, \hEF)>> >>

C9_WriteU32Queue ==
    [][(FreshShadows /\ E1Call) => Queued(ops') = E1Queue(W32(\hA2, 0, 0, \h02))]_vars

\* C9 as stated: the CSW write carries 0x23000002.
C9_AsStated ==
    [][(FreshShadows /\ E1Call) => Queued(ops') = E1Queue(W32(\h23, 0, 0, \h02))]_vars

C9_Witness ==
    /\ hist.n = 1
    /\ call.name = "mem_ap_write_u32"
    /\ call.address = \h20000004
    /\ Len(ops) = 3
    /\ ap.csw_value = W32(\hA2, 0, 0, \h02)

----------------------------------------------------------------------------
(* C10: when a word access (mem_ap_read_u32, mem_ap_write_u32 or an atomic *)
(* variant) directly follows a successful word access to the same          *)
(* naturally aligned 16-byte window, it queues exactly one operation, the  *)
(* access to BD0 | (address & 0xC): no CSW write and no TAR write.         *)

C10_Consecutive ==
    /\ call.name \in WordCalls
    /\ ret = ERROR_OK
    /\ call'.name \in WordCalls
    /\ SameWindow(call.address, call'.address)

C10_OnlyBankedAccess ==
    [][C10_Consecutive =>
        /\ Len(ops') = 1
        /\ ops'[1].reg = BankOf(call'.address)
        /\ ops'[1].kind = (IF call'.name \in {"mem_ap_read_u32", "mem_ap_read_atomic_u32"}
                           THEN "AP_READ" ELSE "AP_WRITE")]_vars

\* E1 then E2: the journal holds CSW, TAR, BD1 and then only BD2.
C10_Witness ==
    /\ hist.n = 2
    /\ call.name = "mem_ap_write_u32"
    /\ call.address = \h20000008
    /\ Len(journal) = 4
    /\ Queued(journal)[3] = <<"AP_WRITE", \h14, W32(\hDE, \hAD, \hBE, \hEF)>>
    /\ Queued(ops) = << <<"AP_WRITE", \h18, W32(\hCA, \hFE, \hBA, \hBE)>> >>

----------------------------------------------------------------------------
(* C8: a block transfer whose size is not 1, 2 or 4, or whose address is   *)
(* not a multiple of size while ap.unaligned_access_bad is set, returns    *)
(* ERROR_TARGET_UNALIGNED_ACCESS, queues nothing, does not flush, and      *)
(* leaves the CSW and TAR shadows, the journal and the target as they were.*)

C8_Rejected ==
    /\ call'.name \in BlockCalls
    /\ \/ req.size \notin {1, 2, 4}
       \/ ap.unaligned_access_bad /\ req.address % req.size # 0

C8_RejectedUntouched ==
    [][C8_Rejected =>
        /\ ret' = ERROR_TARGET_UNALIGNED_ACCESS
        /\ ops' = <<>>
        /\ nrun' = 0
        /\ ap' = ap
        /\ journal' = journal
        /\ tgt' = tgt]_vars

\* An odd-aligned transfer refused after mem_ap_init has set
\* unaligned_access_bad.
C8_Witness ==
    /\ call.name \in BlockCalls
    /\ call.size \in {2, 4}
    /\ call.address % call.size # 0
    /\ ap.unaligned_access_bad
    /\ ret = ERROR_TARGET_UNALIGNED_ACCESS


----------------------------------------------------------------------------
(* The DRW slots and TAR rewrites of the block transfer that ended last.   *)

DrwAt == {i \in DOMAIN ops : IsDrwAccess(ops[i])}

DrwOps == SelectSeq(ops, IsDrwAccess)

\* TAR writes queued after the first DRW access.
Rewrites ==
    {i \in DOMAIN ops : IsTarWrite(ops[i]) /\ \E j \in DrwAt : j < i}

\* The first tar_autoincr_block boundary above the start address.
Boundary == (call.address - (call.address % ap.tar_autoincr_block)) + ap.tar_autoincr_block

\* The slots that start at or beyond the boundary, and those before it.
Beyond == {i \in DrwAt : ops[i].haddr >= Boundary}

Before == DrwAt \ Beyond

RewriteAtBoundary ==
    \E k \in Rewrites :
        /\ Rewrites = {k}
        /\ \A i \in Before : i < k
        /\ \A i \in Beyond : k < i
        /\ \E i \in Beyond : ToAddr(ops[k].val) = ops[i].haddr /\ \A j \in Beyond : i <= j

IncrTransferDone ==
    call.name \in IncrCalls /\ ~dap.ti_be_32_quirks /\ ret = ERROR_OK

----------------------------------------------------------------------------
(* C6: an incrementing block transfer without the BE-32 quirk queues,      *)
(* after its first DRW access, exactly one TAR rewrite when one of its DRW *)
(* slots starts at or beyond the tar_autoincr_block boundary above the     *)
(* start address: the rewrite follows every slot that starts before the    *)
(* boundary, precedes every slot at or beyond it and carries the address   *)
(* of the first such slot.  It queues no TAR rewrite when no slot starts   *)
(* at or beyond the boundary, be it that the transfer ends on the boundary *)
(* or that its last slot, at an unaligned address, spans the boundary.     *)

----------------------------------------------------------------------------
(* C7: a block transfer of size 1, 2 or 4 with count = 0 returns ERROR_OK  *)
(* and queues no transport operation.                                      *)

C7_AsStated ==
    (call.name \in BlockCalls /\ call.size \in {1, 2, 4} /\ call.count = 0) =>
        ret = ERROR_OK /\ ops = <<>>

----------------------------------------------------------------------------
(* C1: after successful calls whose flushes all succeeded, ap.tar_value is *)
(* the value the target's TAR holds once the journal has been flushed.     *)

C1_AsStated == hist.ok => ap.tar_value = Flushed.tar

----------------------------------------------------------------------------
(* C2: after successful calls whose flushes all succeeded, ap.csw_value is *)
(* the value the target's CSW holds once the journal has been flushed.     *)

C2_AsStated == hist.ok => ap.csw_value = Flushed.csw

----------------------------------------------------------------------------
(* C3: after a driver call in which a flush failed, the shadows are        *)
(* invalid: whatever CSW the next mem_ap_setup_csw asks for it is written, *)
(* and mem_ap_setup_tar writes TAR even for the address the shadow holds.  *)

FlushFailed ==
    /\ call.name \in BlockCalls \cup
           {"mem_ap_read_atomic_u32", "mem_ap_write_atomic_u32", "mem_ap_init"}
    /\ call.fault.run # {}

C3_AsStated ==
    FlushFailed =>
        /\ \A c \in CswRequests : mem_ap_setup_csw(Machine(NoFault, ZeroWord), c).ops # <<>>
        /\ mem_ap_setup_tar(Machine(NoFault, ZeroWord), ap.tar_value).ops # <<>>

----------------------------------------------------------------------------
(* C4: with addrinc, no packed transfers and no BE-32 quirk, at a          *)
(* size-aligned address, mem_ap_write_buf puts source byte i in DRW lane   *)
(* (address + i) & 3 and the byte lands at target address + i;             *)
(* mem_ap_read_buf returns in byte i what the target holds at address + i. *)

C4_Plain ==
    /\ ret = ERROR_OK
    /\ ~dap.ti_be_32_quirks
    /\ ~ap.packed_transfers
    /\ call.address % call.size = 0

C4_Written ==
    \A i \in 0..(call.size * call.count - 1) :
        /\ Shr8(DrwOps[(i \div call.size) + 1].val, (call.address + i) % 4)
               = Buffer(call.size * call.count)[i + 1]
        /\ MemByte(tgt.mem, call.address + i) = Buffer(call.size * call.count)[i + 1]

C4_ReadBack ==
    /\ Len(buf.data) = call.size * call.count
    /\ \A i \in 0..(call.size * call.count - 1) :
           buf.data[i + 1] = MemByte(tgt.mem, call.address + i)

C4_AsStated ==
    /\ (call.name = "mem_ap_write_buf" /\ C4_Plain) => C4_Written
    /\ (call.name = "mem_ap_read_buf" /\ C4_Plain) => C4_ReadBack

----------------------------------------------------------------------------
(* C5: every DRW access of an incrementing block transfer executes while   *)
(* the target's TAR is the address the engine programs for that slot (the  *)
(* slot's address, xored with addr_xor for a write in BE-32 quirks mode),  *)
(* and a packed slot executes with at least 4 bytes left in the block.     *)

SlotTar(o) ==
    IF o.kind = "AP_WRITE"
    THEN BitXor(o.haddr, AddrXor(dap.ti_be_32_quirks, call.size))
    ELSE o.haddr

C5_AsStated ==
    call.name \in IncrCalls =>
        \A j \in DOMAIN exec :
            IsDrwAccess(exec[j].op) =>
                /\ exec[j].tar = SlotTar(exec[j].op)
                /\ ((exec[j].csw[1] \div 16) % 4 = 2) =>
                       ap.tar_autoincr_block - (exec[j].tar % ap.tar_autoincr_block) >= 4

----------------------------------------------------------------------------
(* C11: mem_ap_read_u32 and mem_ap_write_u32 never flush.  The atomic      *)
(* variants queue what the queued variant queues; when that queueing       *)
(* failed they do not flush and return its error, otherwise they flush     *)
(* exactly once and return what the flush returned.                        *)

QueuedWordCalls == {"mem_ap_read_u32", "mem_ap_write_u32"}

AtomicWordCalls == {"mem_ap_read_atomic_u32", "mem_ap_write_atomic_u32"}

\* The queued variant of the atomic call c, on the state the call started in.
QueuedVariant(c) ==
    IF c.name = "mem_ap_read_atomic_u32"
    THEN mem_ap_read_u32(Machine(c.fault, ZeroWord), c.address)
    ELSE mem_ap_write_u32(Machine(c.fault, ZeroWord), c.address, WordFor(c.address))

\* What the atomic call has to leave, given the outcome q of its queued variant.
AtomicAfter(q) ==
    /\ ops' = q.ops
    /\ IF q.ret # ERROR_OK
       THEN nrun' = 0 /\ ret' = q.ret /\ journal' = q.journal /\ tgt' = tgt
       ELSE nrun' = 1 /\ journal' = <<>>
            /\ ret' = (IF 1 \in call'.fault.run THEN FlushError(1) ELSE ERROR_OK)

C11_AtomicIsQueuedThenFlush ==
    [][/\ call'.name \in QueuedWordCalls => nrun' = 0 /\ tgt' = tgt
       /\ call'.name \in AtomicWordCalls => AtomicAfter(QueuedVariant(call'))]_vars

\* An atomic write whose second queue operation was refused: no flush.
C11_Witness ==
    /\ call.name = "mem_ap_write_atomic_u32"
    /\ call.fault.q = 2
    /\ Len(ops) = 1
    /\ nrun = 0
    /\ ret = ERROR_FAIL

----------------------------------------------------------------------------
(* C12: in BE-32 quirks mode, on an AP whose shadows are 0,                *)
(* mem_ap_write_buf of the bytes AA, BB, CC with size 1 to 0x100 queues    *)
(* TAR <- 0x103, CSW <- 8-bit | ADDRINC_SINGLE (0xA2000010 with the fixed  *)
(* bits), DRW <- 0xAA000000, TAR <- 0x102, DRW <- 0x00BB0000,              *)
(* TAR <- 0x101, DRW <- 0x0000CC00 and last TAR <- 0x100: TAR is rewritten *)
(* after every DRW write, the last one included.                           *)

E4Call ==
    /\ dap.ti_be_32_quirks
    /\ FreshShadows
    /\ call'.name = "mem_ap_write_buf"
    /\ req = [size |-> 1, count |-> 3, address |-> \h100]

\* CSW <- 8-bit with ADDRINC_SINGLE, whatever the other bits.
IsCsw8Single(o) == IsCswWrite(o) /\ o.val[1] % 8 = 0 /\ (o.val[1] \div 16) % 4 = 1

E4Queue ==
    << <<"AP_WRITE", \h04, W32(0, 0, \h01, \h03)>>,
       <<"AP_WRITE", \h00, W32(\hA2, 0, 0, \h10)>>,
       <<"AP_WRITE", \h0C, W32(\hAA, 0, 0, 0)>>,
       <<"AP_WRITE", \h04, W32(0, 0, \h01, \h02)>>,
       <<"AP_WRITE", \h0C, W32(0, \hBB, 0, 0)>>,
       <<"AP_WRITE", \h04, W32(0, 0, \h01, \h01)>>,
       <<"AP_WRITE", \h0C, W32(0, 0, \hCC, 0)>> >>

C12_QuirkWriteQueue ==
    [][E4Call =>
        Queued(ops') = E4Queue \o << <<"AP_WRITE", \h04, W32(0, 0, \h01, \h00)>> >>]_vars

\* C12 as stated: the seven operations and nothing after them; any CSW
\* value that selects 8-bit and ADDRINC_SINGLE is accepted.
C12_AsStated ==
    [][E4Call =>
        /\ Len(ops') = 7
        /\ IsCsw8Single(ops'[2])
        /\ \A i \in {1, 3, 4, 5, 6, 7} : Queued(ops')[i] = E4Queue[i]]_vars

C12_Witness ==
    /\ hist.n = 1
    /\ dap.ti_be_32_quirks
    /\ call.name = "mem_ap_write_buf"
    /\ call.size = 1 /\ call.count = 3 /\ call.address = \h100
    /\ Len(ops) = 8
    /\ IsTarWrite(ops[8])
    /\ ret = ERROR_OK

----------------------------------------------------------------------------
(* C13: on an AP that mem_ap_init has just found to support packed         *)
(* transfers (tar_autoincr_block 0x400), mem_ap_read_buf with size 4,      *)
(* count 4 at 0x1000 queues TAR <- 0x1000, CSW <- 32-bit | ADDRINC_PACKED  *)
(* (0xA2000022 with the fixed bits) and then four DRW reads, with no TAR   *)
(* write between them: packed increment is selected also when size is 4.   *)

E5Call ==
    /\ call.name = "mem_ap_init"
    /\ ret = ERROR_OK
    /\ ap.packed_transfers
    /\ ap.tar_autoincr_block = \h400
    /\ call'.name = "mem_ap_read_buf"
    /\ req = [size |-> 4, count |-> 4, address |-> \h1000]

DrwRead == <<"AP_READ", \h0C, ZeroWord>>

E5Queue(csw) ==
    << <<"AP_WRITE", \h04, W32(0, 0, \h10, 0)>>,
       <<"AP_WRITE", \h00, csw>>,
       DrwRead, DrwRead, DrwRead, DrwRead >>

C13_PackedWordRead ==
    [][E5Call => Queued(ops') = E5Queue(W32(\hA2, 0, 0, \h22))]_vars

\* C13 as stated: the CSW write selects 32-bit with ADDRINC_SINGLE.
C13_AsStated ==
    [][E5Call =>
        /\ Len(ops') = 6
        /\ IsCswWrite(ops'[2])
        /\ ops'[2].val[1] % 8 = 2
        /\ (ops'[2].val[1] \div 16) % 4 = 1
        /\ \A i \in {1, 3, 4, 5, 6} : Queued(ops')[i] = E5Queue(ZeroWord)[i]]_vars

C13_Witness ==
    /\ hist.n = 2
    /\ ap.packed_transfers
    /\ call.name = "mem_ap_read_buf"
    /\ call.size = 4 /\ call.count = 4 /\ call.address = \h1000
    /\ Len(ops) = 6
    /\ ap.csw_value = W32(\hA2, 0, 0, \h22)
    /\ ret = ERROR_OK

----------------------------------------------------------------------------
(* C14: in BE-32 quirks mode, on a BE-32 target, mem_ap_read_buf that      *)
(* directly follows a successful mem_ap_write_buf of the same size, count  *)
(* and size-aligned address returns the bytes that were written.           *)

C14_WriteThenRead ==
    /\ dap.ti_be_32_quirks
    /\ tgt.be32
    /\ req.address % req.size = 0
    /\ call.name = "mem_ap_write_buf"
    /\ ret = ERROR_OK
    /\ call'.name = "mem_ap_read_buf"
    /\ ret' = ERROR_OK

C14_AsStated ==
    [][C14_WriteThenRead => buf'.data = Buffer(req.size * req.count)]_vars

----------------------------------------------------------------------------
(* C15: when the flush of a block read fails and the TAR read that follows *)
(* succeeds, the caller's buffer receives min(size * count, TAR - start)   *)
(* bytes, none when the TAR read back is below the start address; when the *)
(* TAR read is refused or its flush fails, the buffer receives no byte.    *)

ReadCalls == {"mem_ap_read_buf", "mem_ap_read_buf_noincr"}

Min(a, b) == IF a < b THEN a ELSE b

\* The flush of the block read that ended last failed.
ReadFlushFailed == call.name \in ReadCalls /\ ret = FlushError(1)

\* ... and the recovery read TAR: no second fault in the call.
TarObserved == call.fault.q = 0 /\ call.fault.run = {1}

\* Bytes the transfer advanced according to the TAR the target reports.
Progress ==
    IF tgt.tar < call.address THEN 0
    ELSE Min(call.size * call.count, tgt.tar - call.address)

C15_AsStated ==
    ReadFlushFailed =>
        Len(buf.data) = (IF TarObserved THEN Progress ELSE 0)

----------------------------------------------------------------------------
(* C16: when a queue operation of a block transfer is refused, or its      *)
(* flush fails, the transfer has queued what it queues on a healthy        *)
(* transport up to the failing operation, followed by at most one TAR      *)
(* read; it flushes once more only for that TAR read, and it returns the   *)
(* fault code of the first failing operation, whether or not the TAR read  *)
(* could be queued and flushed.                                            *)

\* The block transfer c as it runs from the current state on transport f.
BlockCallOn(c, f) ==
    IF c.name \in ReadCalls
    THEN mem_ap_read(Machine(f, ZeroWord), req.size, req.count, req.address,
                     c.name = "mem_ap_read_buf")
    ELSE mem_ap_write(Machine(f, ZeroWord), Buffer(req.size * req.count),
                      req.size, req.count, req.address, c.name = "mem_ap_write_buf")

TarRead == <<"AP_READ", \h04, ZeroWord>>

\* The transfer met a transport fault.
TransferFailed ==
    /\ call'.name \in BlockCalls
    /\ call'.fault # NoFault
    /\ ~call'.fault.oom

\* all: what the transfer queues when nothing fails; f: the fault it met.
FailedTransfer(all, f, refused) ==
    /\ Queued(ops') \in
           {SubSeq(all, 1, IF refused THEN f.q - 1 ELSE Len(all)) \o tail :
                tail \in {<<>>, <<TarRead>>}}
    /\ ret' = (IF refused THEN ERROR_FAIL ELSE FlushError(1))
    /\ nrun' = (IF refused THEN 0 ELSE 1)
                 + (IF ops' # <<>> /\ Queued(ops')[Len(ops')] = TarRead THEN 1 ELSE 0)

FirstFailure(all, f) ==
    \A refused \in {f.q > 0 /\ f.q <= Len(all)} : FailedTransfer(all, f, refused)

C16_FirstErrorKept ==
    [][TransferFailed =>
        \A healthy \in {BlockCallOn(call', NoFault).ops} :
            FirstFailure(Queued(healthy), call'.fault)]_vars

\* A read whose flush failed and whose recovery flush failed too.
C16_Witness ==
    /\ call.name = "mem_ap_read_buf"
    /\ call.fault.run = {1, 2}
    /\ call.count > 0
    /\ nrun = 2
    /\ ret = FlushError(1)
    /\ Queued(ops)[Len(ops)] = TarRead

----------------------------------------------------------------------------
(* C19: in every state, ti_be_32_quirks implies that the AP has            *)
(* packed_transfers off and unaligned_access_bad on.                       *)

C19_AsStated ==
    dap.ti_be_32_quirks => ~ap.packed_transfers /\ ap.unaligned_access_bad

----------------------------------------------------------------------------
(* C20: a successful mem_ap_init sets packed_transfers exactly when the    *)
(* CSW read back from the target has ADDRINC_PACKED set and                *)
(* ti_be_32_quirks is off, and sets unaligned_access_bad to                *)
(* ti_be_32_quirks.  Before the CSW read it queues the write               *)
(* CSW <- 8-bit | ADDRINC_PACKED (0xA2000020 with the fixed bits) unless   *)
(* the CSW shadow already holds that value, and always TAR <- 0; the CFG   *)
(* read follows.                                                           *)

ProbeDone == call'.name = "mem_ap_init" /\ ret' = ERROR_OK

ProbeCsw == W32(\hA2, 0, 0, \h20)

ProbeResult ==
    /\ ap'.packed_transfers = (TgtInc(tgt'.csw) = 2 /\ ~dap.ti_be_32_quirks)
    /\ ap'.unaligned_access_bad = dap.ti_be_32_quirks

ProbeQueue ==
    << <<"AP_WRITE", \h00, ProbeCsw>>,
       <<"AP_WRITE", \h04, ZeroWord>>,
       <<"AP_READ", \h00, ZeroWord>>,
       <<"AP_READ", \hF4, ZeroWord>> >>

C20_ProbeThroughShadow ==
    [][ProbeDone =>
        /\ ProbeResult
        /\ Queued(ops') = (IF ap.csw_value = ProbeCsw THEN Tail(ProbeQueue)
                           ELSE ProbeQueue)]_vars

\* C20 as stated: the probe always writes CSW.
C20_AsStated ==
    [][ProbeDone => ProbeResult /\ Queued(ops') = ProbeQueue]_vars

\* A probe in quirks mode of a target that retains ADDRINC_PACKED.
C20_Witness ==
    /\ call.name = "mem_ap_init"
    /\ ret = ERROR_OK
    /\ dap.ti_be_32_quirks
    /\ TgtInc(tgt.csw) = 2
    /\ ~ap.packed_transfers
    /\ ap.unaligned_access_bad

----------------------------------------------------------------------------
(* C17: dap_dp_init makes at most 10 passes of its power-up sequence; it   *)
(* makes another pass only after a pass that failed, and returns after the *)
(* first pass that succeeded; it returns ERROR_OK when at most 9 passes    *)
(* failed and an error only when 10 passes failed.                         *)

DpReturned == dp.pc = "idle" /\ dp.calls > 0

C17_TenAttempts ==
    /\ dp.tried <= 10
    /\ dp.pc = "loop" => dp.tried = dp.failed /\ dp.tried = dp.i
    /\ dp.pc = "break" => dp.tried = dp.failed + 1 /\ dp.retval = ERROR_OK
    /\ DpReturned =>
           IF dp.failed <= 9
           THEN ret = ERROR_OK /\ dp.tried = dp.failed + 1
           ELSE ret # ERROR_OK /\ dp.tried = 10

\* Nine failed passes, the first of them a refused SSTICKYERR write, and
\* then a pass that succeeds.
C17_Witness ==
    /\ DpReturned
    /\ dp.failed = 9
    /\ dp.refused > 0
    /\ dp.tried = 10
    /\ ret = ERROR_OK

----------------------------------------------------------------------------
(* C18: when dap_dp_init has returned ERROR_OK, the last value written to  *)
(* the target's CTRL/STAT and dap.dp_ctrl_stat are both                    *)
(* CDBGPWRUPREQ | CSYSPWRUPREQ | CORUNDETECT = 0x50000001, and the DAP and *)
(* the target's DP are in one and the same state after a first call and    *)
(* after a second call on a healthy link.                                  *)

C18_SameEndState ==
    (DpReturned /\ ret = ERROR_OK) =>
        /\ dp.tgt.lastw = W32(\h50, 0, 0, \h01)
        /\ dap.dp_ctrl_stat = W32(\h50, 0, 0, \h01)
        /\ dap.select = DP_SELECT_INVALID
        /\ dap.last_read = NULL
        /\ dp.tgt.ctrl = W32(\h50, 0, 0, \h01)
        /\ ~dp.tgt.sticky
        /\ journal = <<>>

\* The second call, without any failure, has returned.
C18_Witness ==
    /\ DpReturned
    /\ dp.calls = 2
    /\ dp.failed = 0
    /\ ret = ERROR_OK
    /\ dp.tgt.lastw = W32(\h50, 0, 0, \h01)

----------------------------------------------------------------------------
(* C30: in every pass of dap_dp_init the write that clears SSTICKYERR      *)
(* comes before the write of CDBGPWRUPREQ | CSYSPWRUPREQ, that before the  *)
(* poll for CDBGPWRUPACK and that before the poll for CSYSPWRUPACK, none   *)
(* of them being made without the one before it; the write that sets       *)
(* CORUNDETECT is queued only in a pass in which both polls were made and  *)
(* neither failed, and only a CTRL/STAT read and then the flush follow it; *)
(* a pass the link does not disturb makes all ten operations; and when the *)
(* first pass starts dap.select is the invalid sentinel and last_read is   *)
(* NULL.                                                                   *)

IndexOf(s, o) == {i \in 1..Len(s) : s[i] = o}

AllBefore(A, B) == \A i \in A, j \in B : i < j

ClearWrites == IndexOf(dp.ops, <<"DP_WRITE", DP_CTRL_STAT, SSTICKYERR>>)

RequestWrites ==
    IndexOf(dp.ops, <<"DP_WRITE", DP_CTRL_STAT, WOr(CDBGPWRUPREQ, CSYSPWRUPREQ)>>)

DebugPolls == IndexOf(dp.ops, <<"POLL", DP_CTRL_STAT, CDBGPWRUPACK>>)

SystemPolls == IndexOf(dp.ops, <<"POLL", DP_CTRL_STAT, CSYSPWRUPACK>>)

OverrunWrites ==
    {i \in 1..Len(dp.ops) :
        /\ dp.ops[i][1] = "DP_WRITE"
        /\ WAnd(dp.ops[i][3], CORUNDETECT) # ZeroWord}

C30_PassOrder ==
    /\ AllBefore(ClearWrites, RequestWrites)
    /\ AllBefore(RequestWrites, DebugPolls)
    /\ AllBefore(DebugPolls, SystemPolls)
    /\ RequestWrites # {} => ClearWrites # {}
    /\ DebugPolls # {} => RequestWrites # {}
    /\ SystemPolls # {} => DebugPolls # {}
    /\ \A k \in OverrunWrites :
           /\ DebugPolls # {} /\ SystemPolls # {}
           /\ AllBefore(SystemPolls, {k})
           /\ dp.fault.step \notin {5, 6}
           /\ dp.ops[k] = <<"DP_WRITE", DP_CTRL_STAT, W32(\h50, 0, 0, \h01)>>
           /\ Len(dp.ops) <= k + 2
           /\ Len(dp.ops) > k => dp.ops[k + 1] = <<"DP_READ", DP_CTRL_STAT, ZeroWord>>
           /\ Len(dp.ops) > k + 1 => dp.ops[k + 2] = <<"RUN", 0, ZeroWord>>
    /\ (dp.tried > 0 /\ dp.fault = NoDpFault) =>
           Len(dp.ops) = 10 /\ OverrunWrites = {8}
    /\ (dp.pc = "loop" /\ dp.tried = 0) =>
           dap.select = DP_SELECT_INVALID /\ dap.last_read = NULL

\* A pass that went through after a pass in which the target did not raise
\* CSYSPWRUPACK.
C30_Witness ==
    /\ dp.pc = "break"
    /\ dp.failed > 0
    /\ dp.fault = NoDpFault
    /\ OverrunWrites = {8}
    /\ SystemPolls = {6}
    /\ dp.tgt.lastw = W32(\h50, 0, 0, \h01)

----------------------------------------------------------------------------
(* C29: in a block transfer on a healthy transport, the target's CSW at    *)
(* each DRW access has the increment mode its slot calls for: OFF in a     *)
(* transfer without addrinc; PACKED when addrinc is set, packed_transfers  *)
(* is true, at least 4 bytes remain and at least 4 bytes are left up to    *)
(* the next tar_autoincr_block boundary from the slot's address; SINGLE in *)
(* every other slot, also after PACKED slots of the same transfer.  A      *)
(* PACKED slot moves 4 bytes and every other slot size bytes.              *)

BlockDone == call.name \in BlockCalls /\ ret = ERROR_OK

DrwSlots == {i \in 1..Len(exec) : exec[i].op.reg = MEM_AP_REG_DRW}

Remaining(i) == call.size * call.count - (exec[i].op.haddr - call.address)

Headroom(i) == TAR_AUTOINCR_BLOCK - (exec[i].op.haddr % TAR_AUTOINCR_BLOCK)

SlotMode(i) ==
    IF call.name \notin IncrCalls THEN 0
    ELSE IF ap.packed_transfers /\ Remaining(i) >= 4 /\ Headroom(i) >= 4 THEN 2
    ELSE 1

SlotEnd(i) == exec[i].op.haddr + (IF SlotMode(i) = 2 THEN 4 ELSE call.size)

NextSlots(i) == {j \in DrwSlots : j > i /\ \A k \in DrwSlots : k > i => j <= k}

C29_ModePerSlot ==
    BlockDone =>
        /\ \A i \in DrwSlots :
               /\ TgtInc(exec[i].csw) = SlotMode(i)
               /\ \A j \in NextSlots(i) : exec[j].op.haddr = SlotEnd(i)
               /\ NextSlots(i) = {} => SlotEnd(i) = call.address + call.size * call.count
        /\ call.count > 0 =>
               \E i \in DrwSlots : exec[i].op.haddr = call.address

\* A transfer of 16-bit units whose first slot is PACKED and whose last
\* slot, with 2 bytes left, is SINGLE.
C29_Witness ==
    /\ BlockDone
    /\ call.name \in IncrCalls
    /\ call.size = 2
    /\ ap.packed_transfers
    /\ \E i, j \in DrwSlots :
           /\ i < j
           /\ TgtInc(exec[i].csw) = 2
           /\ TgtInc(exec[j].csw) = 1

----------------------------------------------------------------------------
(* C21: dap_find_ap reads the IDR of the APs 0, 1, 2, ... in this order    *)
(* and of no AP beyond the one it returns.  On a healthy transport it      *)
(* returns ERROR_OK with *ap_out the AP of the lowest number whose IDR has *)
(* JEDEC bank 4, JEDEC code 0x3B and the wanted type in bits 3-0, if there *)
(* is one; an AP whose IDR reads as 0 is never returned; and when no AP    *)
(* matches, all 256 IDRs have been read, ERROR_FAIL is returned and        *)
(* *ap_out is as it was.  When a flush of the scan fails, the AP it was to *)
(* read is passed over like one that does not match, and a refused queue   *)
(* operation ends the scan with *ap_out as it was.                         *)

FindApCall == call.name = "dap_find_ap"

IsArmOfType(idr, type) ==
    /\ idr[4] % 16 = 4
    /\ idr[3] \div 2 = \h3B
    /\ idr[1] % 16 = type[1]

Matching == {i \in ApNums : IsArmOfType(aps.idr[i], call.type)}

\* The matching APs whose IDR read was flushed.
Found == {i \in Matching : (i + 1) \notin call.fault.run}

IdrReads(n) == [i \in 1..n |-> <<"AP_READ", i - 1, AP_REG_IDR, "id_val">>]

C21_LowestMatch ==
    FindApCall =>
        /\ \E n \in 0..(LAST_AP + 1) : ops = IdrReads(n)
        /\ ret = ERROR_OK =>
               /\ aps.out \in Found
               /\ \A j \in Found : aps.out <= j
               /\ aps.idr[aps.out] # ZeroWord
               /\ ops = IdrReads(aps.out + 1)
        /\ ret # ERROR_OK => aps.out = call.out
        /\ call.fault = NoFault =>
               /\ Matching # {} => ret = ERROR_OK
               /\ Matching = {} => ret = ERROR_FAIL /\ ops = IdrReads(LAST_AP + 1)
        /\ (call.fault.q > 0 /\ ret # ERROR_OK) => ops = IdrReads(call.fault.q - 1)

\* A scan that passes over AP 0, which does not exist, and AP 1, of
\* another designer, and returns AP 255, after an earlier scan left
\* *ap_out as it was for want of a JTAG-AP.
C21_Witness ==
    /\ FindApCall
    /\ call.fault = NoFault
    /\ call.type = AP_TYPE_AHB_AP
    /\ aps.idr[0] = ZeroWord
    /\ aps.idr[1] = IDR_OTHER
    /\ aps.idr[LAST_AP] = IDR_AHB
    /\ call.out = NULL
    /\ hist.n = 2
    /\ ret = ERROR_OK
    /\ aps.out = LAST_AP
    /\ Len(ops) = LAST_AP + 1

----------------------------------------------------------------------------
(* C26: a dap command given an AP number of 256 or more, an apcsw or       *)
(* ti_be_32_quirks argument other than 0 and 1, or more than 255 memaccess *)
(* cycles returns ERROR_COMMAND_SYNTAX_ERROR and leaves dap->ap[], the DAP *)
(* and the journal as they were; dap->apsel and every memaccess_tck are in *)
(* 0..255 throughout.                                                      *)

ApCommands == {"dap_apsel_command", "dap_apid_command", "dap_baseaddr_command"}

FlagCommands == {"dap_apcsw_command", "dap_ti_be_32_quirks_command"}

OutOfRange(c) ==
    /\ c.name \in ApCommands \cup FlagCommands \cup {"dap_memaccess_command"}
    /\ Len(c.argv) = 1
    /\ IF c.name \in ApCommands THEN c.argv[1] >= 256
       ELSE IF c.name \in FlagCommands THEN c.argv[1] > 1
       ELSE c.argv[1] > 255

Refused ==
    /\ ret' = ERROR_COMMAND_SYNTAX_ERROR
    /\ aps' = aps
    /\ ap' = ap
    /\ dap' = dap
    /\ journal' = journal

C26_AsStated ==
    /\ [](aps.apsel \in 0..255 /\ \A i \in ApNums : aps.memaccess_tck[i] \in 0..255)
    /\ [][OutOfRange(call') => Refused]_vars

----------------------------------------------------------------------------
(* C27: mem_ap_setup_csw asked for csw takes the value                     *)
(* csw | 0xA2000000 | ap.csw_default (DBGSWENABLE, MASTER_DEBUG, HPROT1    *)
(* and the default bits); when the CSW shadow holds this value the call    *)
(* queues nothing and changes nothing, and otherwise it queues one write   *)
(* of this value to CSW, behind what the journal holds, and the shadow     *)
(* holds the value after the call.  It returns ERROR_OK.                   *)

SetupCswCall == call.name = "mem_ap_setup_csw"

Effective(csw) == WOr(WOr(csw, W32(\hA2, 0, 0, 0)), ap.csw_default)

CswWrite(v) == Op("AP_WRITE", MEM_AP_REG_CSW, v, "none", 0, -1)

C27_SetupCsw ==
    [][call'.name = "mem_ap_setup_csw" =>
        /\ ret' = ERROR_OK
        /\ IF Effective(call'.csw) = ap.csw_value
           THEN ops' = <<>> /\ journal' = journal /\ ap' = ap
           ELSE /\ ops' = <<CswWrite(Effective(call'.csw))>>
                /\ journal' = Append(journal, CswWrite(Effective(call'.csw)))
                /\ ap' = [ap EXCEPT !.csw_value = Effective(call'.csw)]]_vars

\* After "dap apcsw 1" and a call that wrote 32-bit | SINGLE with SPROT,
\* 0xE2000012, a call for the same value queues nothing.
C27_Witness ==
    /\ SetupCswCall
    /\ call.csw = WOr(CSW_32BIT, CSW_ADDRINC_SINGLE)
    /\ ap.csw_default = CSW_SPROT
    /\ ap.csw_value = W32(\hE2, 0, 0, \h12)
    /\ ops = <<>>
    /\ journal = <<CswWrite(W32(\hE2, 0, 0, \h12))>>
    /\ tally.writes = 1

----------------------------------------------------------------------------
(* C28: mem_ap_setup_tar queues a TAR write exactly when the address asked *)
(* for differs from ap.tar_value or the increment field of ap.csw_value is *)
(* not OFF; the write is the only operation it queues and the shadow holds *)
(* the address after it.  Over every sequence of mem_ap_setup_csw and      *)
(* mem_ap_setup_tar calls the number of writes queued is the number of     *)
(* times a shadow took a new value plus the number of TAR writes of the    *)
(* address the shadow held already, made because the cached CSW has an     *)
(* increment mode.                                                         *)

TarWrite(a) == Op("AP_WRITE", MEM_AP_REG_TAR, ToWord(a), "none", 0, -1)

TarWriteDue == call'.tar # ap.tar_value \/ TgtInc(ap.csw_value) # 0

----------------------------------------------------------------------------
(* C22: dap_lookup_cs_component called with *idx = n returns ERROR_OK with *)
(* *addr the base address of the (n+1)-th component whose DEVTYPE low byte *)
(* is the requested type, counted depth-first across nested ROM tables,    *)
(* and returns ERROR_TARGET_RESOURCE_NOT_AVAILABLE exactly when the tree   *)
(* has fewer than n+1 such components.  The components of a tree are       *)
(* counted on its description, not by the walker.                          *)

WalkRom == RomNamed(walk.rom)

\* The present entries of a table before its first zero entry.
RomPresent(rom, b) ==
    LET t == rom.tables[b]
        stops == {i \in 1..Len(t) : t[i] = ZeroWord}
    IN  {i \in 1..Len(t) : Present(t[i]) /\ \A z \in stops : i < z}

\* The components of type below the entries S of the table b, depth-first.
RECURSIVE RomMatches(_, _, _, _)
RomMatches(rom, b, type, S) ==
    IF S = {} THEN <<>>
    ELSE LET i == CHOOSE x \in S : \A y \in S : x <= y
             cb == ComponentBase(b, rom.tables[b][i])
             here == IF rom.comps[cb].class = 1
                     THEN RomMatches(rom, cb, type, RomPresent(rom, cb))
                     ELSE IF rom.comps[cb].devtype = type THEN <<cb>>
                     ELSE <<>>
         IN  here \o RomMatches(rom, b, type, S \ {i})

LookupWanted ==
    RomMatches(WalkRom, WalkRom.root, call.type, RomPresent(WalkRom, WalkRom.root))

\* A lookup on a tree returned and the transport failed in none of its steps.
LookupReturned ==
    /\ call.name = "dap_lookup_cs_component"
    /\ walk.pc = "idle"
    /\ WalkRom.tree
    /\ ~walk.faulted

LookupAsWanted ==
    IF call.idx < Len(LookupWanted)
    THEN ret = ERROR_OK /\ walk.addr = LookupWanted[call.idx + 1]
    ELSE ret = ERROR_TARGET_RESOURCE_NOT_AVAILABLE

C22_AsStated == LookupReturned => LookupAsWanted

\* The same on the trees without a component at the address 0, for a type
\* that is not the MEMTYPE of a nested table.
C22_Elsewhere ==
    (LookupReturned /\ walk.rom # "zero" /\ call.type # \h01) => LookupAsWanted

C22_ElsewhereSeen ==
    /\ LookupReturned
    /\ walk.rom = "nested"
    /\ call.idx = 2
    /\ ret = ERROR_OK
    /\ walk.addr = \h15000

----------------------------------------------------------------------------
(* C23: dap_lookup_cs_component terminates for every ROM content: the walk *)
(* of one table stops at the first zero entry or when the entry offset     *)
(* reaches 0xF00, so no entry at offset 0xF00 or beyond is read, and the   *)
(* lookup does not go on forever on a table without a zero entry or on     *)
(* tables that refer to each other.  The target's memory does not change   *)
(* during a lookup, so an activation entered on a table with the *idx an   *)
(* activation below it on the stack was entered with, on the same table,   *)
(* repeats that activation: the lookup then never returns.                 *)

InLookup == call.name = "dap_lookup_cs_component"

\* Every entry the lookup read was at an offset below 0xF00.
LookupEntriesInTable ==
    (InLookup /\ walk.step.fn = "entry") => walk.step.offset < ROM_ENTRIES_END

\* No activation of the lookup repeats one of its callers.
LookupNoReentry ==
    (InLookup /\ walk.pc = "lookup") =>
        \A i, j \in 1..Len(walk.stack) :
            (i < j /\ Page(walk.stack[i].dbgbase) = Page(walk.stack[j].dbgbase))
                => walk.stack[i].idx0 # walk.stack[j].idx0

C23_AsStated == LookupEntriesInTable /\ LookupNoReentry

----------------------------------------------------------------------------
(* C24: during a walk of dap_lookup_cs_component or dap_rom_display a      *)
(* failure to read the registers of one component does not abort the walk: *)
(* the component is skipped, the remaining entries are examined, and a     *)
(* matching component listed after the unreadable one is still found.      *)

\* The transport failed one read of the walk, a read of an identification
\* register of a component (0xFCC..0xFFC of its page).
ComponentUnread == walk.faulted /\ walk.failed % 4096 >= \hFCC

\* The unreadable component is not a table.
LeafUnread ==
    /\ ComponentUnread
    /\ Page(walk.failed) \in DOMAIN WalkRom.comps
    /\ WalkRom.comps[Page(walk.failed)].class # 1

\* The matching components of the tree without the one on the page p.
LookupWantedBut(p) ==
    SelectSeq(LookupWanted, LAMBDA b : b # p)

\* A lookup on a tree returned after one component could not be read.
LookupSkipped ==
    /\ InLookup
    /\ walk.pc = "idle"
    /\ WalkRom.tree
    /\ ComponentUnread

\* A display of a tree returned after one component could not be read.
DisplaySkipped ==
    /\ call.name = "dap_rom_display"
    /\ walk.pc = "idle"
    /\ WalkRom.tree
    /\ ComponentUnread

C24_AsStated ==
    /\ LookupSkipped => ret \in {ERROR_OK, ERROR_TARGET_RESOURCE_NOT_AVAILABLE}
    /\ (LookupSkipped /\ LeafUnread /\ call.type # \h01) =>
           \E L \in {LookupWantedBut(Page(walk.failed))} :
               IF call.idx < Len(L)
               THEN ret = ERROR_OK /\ walk.addr = L[call.idx + 1]
               ELSE ret = ERROR_TARGET_RESOURCE_NOT_AVAILABLE
    /\ DisplaySkipped => ret = ERROR_OK

\* What dap_rom_display does skip: a component whose identification
\* registers dap_read_part_id could not read.
C24_PartIdSkipped ==
    (DisplaySkipped /\ walk.failed % 4096 = \hFFC) => ret = ERROR_OK

C24_PartIdSkippedSeen ==
    /\ DisplaySkipped
    /\ walk.failed = \h11FFC
    /\ ret = ERROR_OK

\* A failed read of DEVTYPE ends the display with the error of the read.
C24_DisplayAborted ==
    /\ DisplaySkipped
    /\ walk.failed = \h11FCC
    /\ ret # ERROR_OK

\* A failed read of CID1 ends the lookup with the error of the read.
C24_LookupAborted ==
    /\ LookupSkipped
    /\ walk.failed = \h11FF4
    /\ ret \notin {ERROR_OK, ERROR_TARGET_RESOURCE_NOT_AVAILABLE}

----------------------------------------------------------------------------
(* C25: dap_rom_display entered at a depth above 16 returns ERROR_FAIL     *)
(* without queueing a read or flushing; so the display nests at most 18    *)
(* activations (depths 0..17), reads no entry at offset 0xF00 or beyond,   *)
(* and terminates on every ROM content, tables that refer to themselves or *)
(* to each other included: every step of a display lowers a rank that      *)
(* cannot be lowered for ever.  The rank is the sequence, from the         *)
(* outermost activation inwards, of what each activation has left to do    *)
(* (the entries up to 0xF00, and its entry code), compared                 *)
(* lexicographically; an activation not yet called counts as the highest   *)
(* value and one that just returned as the lowest.                         *)

InDisplay == call.name = "dap_rom_display"

\* The activation entered above the limit did nothing but return the error.
DisplayTooDeep ==
    (InDisplay /\ walk.step.fn = "enter" /\ walk.step.depth > ROM_DEPTH_LIMIT) =>
        /\ walk.step.reads = 0
        /\ nrun = 0
        /\ journal = <<>>
        /\ walk.retval = ERROR_FAIL

DisplayNesting ==
    (InDisplay /\ walk.pc = "display") =>
        /\ Len(walk.stack) <= ROM_DEPTH_LIMIT + 2
        /\ \A i \in 1..Len(walk.stack) : walk.stack[i].depth = i - 1

DisplayEntriesInTable ==
    (InDisplay /\ walk.step.fn = "entry" /\ walk.step.offset >= ROM_ENTRIES_END) =>
        walk.step.reads = 0

DisplayRank(stack, retval, i) ==
    IF i <= Len(stack)
    THEN 2 * (ROM_ENTRIES_END - stack[i].entry_offset)
         + (IF stack[i].pc = "enter" THEN 1 ELSE 0)
    ELSE IF retval # "none" THEN -1
    ELSE 2 * ROM_ENTRIES_END + 2

DisplayProgress ==
    (InDisplay /\ walk.pc = "display" /\ walk'.pc = "display") =>
        \E k \in 1..(ROM_DEPTH_LIMIT + 3) :
            /\ DisplayRank(walk'.stack, walk'.retval, k)
                   < DisplayRank(walk.stack, walk.retval, k)
            /\ \A j \in 1..(k - 1) :
                   DisplayRank(walk'.stack, walk'.retval, j)
                       = DisplayRank(walk.stack, walk.retval, j)

C25_DisplayBounded ==
    /\ [](DisplayTooDeep /\ DisplayNesting /\ DisplayEntriesInTable)
    /\ [][DisplayProgress]_vars

\* On the table that refers to itself the activation at depth 17 returned
\* the error, having read nothing.
C25_Witness ==
    /\ InDisplay
    /\ walk.rom = "self"
    /\ walk.pc = "display"
    /\ Len(walk.stack) = ROM_DEPTH_LIMIT + 1
    /\ walk.step = [fn |-> "enter", depth |-> ROM_DEPTH_LIMIT + 1, offset |-> -1, reads |-> 0]
    /\ walk.retval = ERROR_FAIL

----------------------------------------------------------------------------
(* C31: in dap_lookup_cs_component a present entry whose CID1 class is 1   *)
(* (a nested ROM table) is only recursed into: the register at 0xFCC of a  *)
(* nested table is never read, a table is never returned in *addr, and a   *)
(* table never lowers *idx.                                                *)

\* The component on the page of the address a is a ROM table.
IsRomTable(a) ==
    /\ Page(a) \in DOMAIN WalkRom.comps
    /\ WalkRom.comps[Page(a)].class = 1

\* No step of the lookup read the register at 0xFCC of a table.
LookupNoTableType ==
    InLookup =>
        \A i \in 1..Len(ops) :
            (ops[i].kind = "AP_READ" /\ ops[i].haddr % 4096 = \hFCC)
                => ~IsRomTable(ops[i].haddr)

\* A lookup that returned ERROR_OK did not return a table.
LookupNoTableFound ==
    (InLookup /\ walk.pc = "idle" /\ ret = ERROR_OK) => ~IsRomTable(walk.addr)

C31_AsStated == LookupNoTableType /\ LookupNoTableFound

(* C32: when the transport refuses the CSW or TAR write, mem_ap_setup_csw    *)
(* and mem_ap_setup_tar return that error, queue nothing and leave their    *)
(* shadow as it was; mem_ap_setup_transfer queues CSW before TAR, and when  *)
(* its CSW step fails it queues no TAR write and leaves ap.tar_value (and   *)
(* the CSW shadow) as they were; when its TAR step fails the TAR shadow is  *)
(* unchanged.                                                               *)
\* The step is a call of name in which the transport refused a write.
SetupRefused(name) == call'.name = name /\ call'.fault.q > 0

IsWriteOf(op, reg) == op.kind = "AP_WRITE" /\ op.reg = reg

CswBeforeTar(q) ==
    \A i, j \in 1..Len(q) :
        (IsWriteOf(q[i], MEM_AP_REG_CSW) /\ IsWriteOf(q[j], MEM_AP_REG_TAR)) => i < j

\* The CSW step of the call had a write to queue.
CswStepWrites == CswEffective(ap, call'.csw) # ap.csw_value

SetupRefusals ==
    /\ SetupRefused("mem_ap_setup_csw") =>
            /\ ret' = ERROR_FAIL
            /\ ops' = <<>>
            /\ ap' = ap
    /\ SetupRefused("mem_ap_setup_tar") =>
            /\ ret' = ERROR_FAIL
            /\ ops' = <<>>
            /\ ap' = ap
    /\ call'.name = "mem_ap_setup_transfer" => CswBeforeTar(ops')
    /\ SetupRefused("mem_ap_setup_transfer") =>
            /\ ret' = ERROR_FAIL
            /\ \A i \in 1..Len(ops') : ~IsWriteOf(ops'[i], MEM_AP_REG_TAR)
            /\ ap'.tar_value = ap.tar_value
            /\ IF CswStepWrites /\ call'.fault.q = 1
               THEN ops' = <<>> /\ ap' = ap
               ELSE ap'.csw_value = CswEffective(ap, call'.csw)

C32_SetupRefusals == [][SetupRefusals]_vars

\* A mem_ap_setup_transfer whose CSW write was refused.
C32_Witness ==
    /\ call.name = "mem_ap_setup_transfer"
    /\ call.fault.q = 1
    /\ ret = ERROR_FAIL
    /\ ops = <<>>
    /\ CswEffective(ap, call.csw) # ap.csw_value
    /\ call.tar # ap.tar_value

(* C33: when every flush succeeded, each BD0..BD3 access queued by          *)
(* mem_ap_read_u32 or mem_ap_write_u32 for address A executes while the     *)
(* target's TAR is A & 0xFFFFFFF0, also right after an auto-incrementing    *)
(* block transfer that started in the 16-byte window of A.                  *)
BdAccessesAt(P(_)) ==
    \A j \in DOMAIN exec : IsBd(exec[j].op.reg) => P(exec[j])

BdTarIsWindow(e) == e.tar = BdWindow(e.op.haddr)

C33_AsStated == hist.ok => BdAccessesAt(BdTarIsWindow)

\* The weaker reading, TAR somewhere in the window of A, fails as well.
BdTarInWindow(e) == SameWindow(e.tar, e.op.haddr)

C33_InWindow == hist.ok => BdAccessesAt(BdTarInWindow)

(* C34: in a non-incrementing block transfer of size 1 or 2 with count > 1  *)
(* every element is placed in (write) or taken from (read) the DRW byte     *)
(* lanes the fixed target address selects, the same lanes for each element. *)
NoincrSmall(name) ==
    /\ call.name = name
    /\ call.size \in {1, 2}
    /\ call.count > 1
    /\ ret = ERROR_OK
    /\ ~dap.ti_be_32_quirks
    /\ ~tgt.be32

\* The DRW accesses the target executed during the call.
DrwExec == SelectSeq(exec, LAMBDA e : IsDrwAccess(e.op))

NoincrWriteLanes ==
    \A k \in DOMAIN DrwOps : \A b \in 0..(call.size - 1) :
        Shr8(DrwOps[k].val, (call.address + b) % 4)
            = Buffer(call.size * call.count)[(k - 1) * call.size + b + 1]

NoincrReadLanes ==
    /\ Len(buf.data) = call.size * call.count
    /\ \A k \in DOMAIN DrwExec : \A b \in 0..(call.size - 1) :
           buf.data[(k - 1) * call.size + b + 1] = MemByte(tgt.mem, DrwExec[k].tar + b)

C34_AsStated ==
    /\ NoincrSmall("mem_ap_write_buf_noincr") => NoincrWriteLanes
    /\ NoincrSmall("mem_ap_read_buf_noincr") => NoincrReadLanes

\* The same holds for one element, and for words.
C34_FirstElement ==
    /\ (call.name = "mem_ap_write_buf_noincr" /\ call.count > 0 /\ ret = ERROR_OK
            /\ call.size \in {1, 2, 4} /\ ~dap.ti_be_32_quirks) =>
           \A b \in 0..(call.size - 1) :
               Shr8(DrwOps[1].val, (call.address + b) % 4)
                   = Buffer(call.size * call.count)[b + 1]
    /\ (call.name = "mem_ap_read_buf_noincr" /\ call.count > 0 /\ ret = ERROR_OK
            /\ call.size \in {1, 2, 4} /\ ~dap.ti_be_32_quirks /\ ~tgt.be32) =>
           \A b \in 0..(call.size - 1) :
               buf.data[b + 1] = MemByte(tgt.mem, DrwExec[1].tar + b)

(* C35: after a failed flush in mem_ap_read, whatever TAR the recovery read *)
(* returns, the replay loop terminates with its byte counter never wrapping *)
(* below zero, stores at most size * count bytes in the caller's buffer and *)
(* reads only scratch words whose DRW read was queued.                      *)
ReplayInBounds ==
    /\ ~buf.wrapped
    /\ Len(buf.data) <= call.size * call.count
    /\ buf.words <= Len(DrwOps)

C35_AsStated == ReadFlushFailed => ReplayInBounds

\* The replay is in bounds when the TAR read back is the start address plus
\* a multiple of the element size.
C35_WholeElements ==
    (ReadFlushFailed /\ TarObserved /\ tgt.tar >= call.address
         /\ (tgt.tar - call.address) % call.size = 0 /\ ~ap.packed_transfers)
        => ReplayInBounds

(* C36: for every size in {1, 2, 4}, count, address, addrinc and packed     *)
(* setting, mem_ap_read queues at most count DRW reads, so read_ptr stays   *)
(* inside the count words of read_buf; each slot takes no more bytes than   *)
(* remain, and the slots together take exactly size * count bytes: the      *)
(* queueing loop ends with nbytes = 0.                                      *)
ReadQueued ==
    /\ call.name \in ReadCalls
    /\ call.size \in {1, 2, 4}
    /\ ret = ERROR_OK

\* The bytes the slot of the i-th executed operation moves: 4 when the CSW
\* it executes under selects packed transfers, else size.
SlotWidth(i) == IF TgtInc(exec[i].csw) = 2 THEN 4 ELSE call.size

RECURSIVE SlotBytes(_)
SlotBytes(S) ==
    IF S = {} THEN 0
    ELSE LET i == CHOOSE i \in S : TRUE IN SlotWidth(i) + SlotBytes(S \ {i})

C36_QueueExact ==
    ReadQueued =>
        /\ Len(DrwOps) <= call.count
        /\ \A i \in DOMAIN DrwOps : DrwOps[i].idx = i
        /\ Cardinality(DrwSlots) = Len(DrwOps)
        /\ \A i \in DrwSlots : SlotWidth(i) <= Remaining(i)
        /\ SlotBytes(DrwSlots) = call.size * call.count

\* A read of three 16-bit units in two slots, a packed one and a single one.
C36_Witness ==
    /\ ReadQueued
    /\ call.name = "mem_ap_read_buf"
    /\ ap.packed_transfers
    /\ call.size = 2
    /\ call.count = 3
    /\ Len(DrwOps) = 2
    /\ {SlotWidth(i) : i \in DrwSlots} = {2, 4}

(* C37: when the flush of a block read succeeds, the replay loop makes for  *)
(* every slot the packed-or-single decision the queueing loop made,         *)
(* consumes as many scratch words as DRW reads were queued and stores       *)
(* size * count bytes; when the flush fails and the byte count is           *)
(* truncated, each scratch word the replay consumes is still taken with the *)
(* width of the slot that queued it.                                        *)

\* The width of the slot that queued the k-th DRW read: up to the next slot,
\* or to the end of the request.
QueuedWidth(k) ==
    IF k < Len(DrwOps) THEN DrwOps[k + 1].haddr - DrwOps[k].haddr
    ELSE call.address + call.size * call.count - DrwOps[k].haddr

\* The widths the replay loop chooses when it starts with nbytes at address.
RECURSIVE ReplayWidths(_, _)
ReplayWidths(nbytes, address) ==
    IF nbytes <= 0 THEN <<>>
    ELSE LET w == IF UsePacked(ap, call.name = "mem_ap_read_buf", nbytes, address)
                  THEN 4 ELSE call.size
         IN  <<w>> \o ReplayWidths(nbytes - w, address + w)

\* The replay ran its loop to the end on the Len(buf.data) bytes it delivered.
Replayed ==
    /\ call.name \in ReadCalls
    /\ call.size \in {1, 2, 4}
    /\ call.fault.q = 0
    /\ ~buf.wrapped

SameWidths ==
    /\ buf.words = Len(ReplayWidths(Len(buf.data), call.address))
    /\ buf.words <= Len(DrwOps)
    /\ \A k \in 1..buf.words :
           ReplayWidths(Len(buf.data), call.address)[k] = QueuedWidth(k)

C37_Succeeded ==
    (Replayed /\ ret = ERROR_OK) =>
        /\ SameWidths
        /\ buf.words = Len(DrwOps)
        /\ Len(buf.data) = call.size * call.count

C37_Truncated == (Replayed /\ ReadFlushFailed) => SameWidths

C37_AsStated == C37_Succeeded /\ C37_Truncated

====
